---- MODULE Spec2Model ----
(***************************************************************************)
(* Model of the FigmaToFSD generation workflow.                            *)
(*                                                                         *)
(*   - the streaming generation route (src/app/api/generate/route.ts),     *)
(*   - the Jira library createComponentWithSubtasks with its process-wide  *)
(*     account-id cache (lib/jira), and                                    *)
(*   - the stand-alone ticket creator script (create-jira-tickets.js).     *)
(*                                                                         *)
(* One run of an entry point is modelled at a time.  The account-id cache  *)
(* of the Jira library is a module-level Map: it survives from one run of  *)
(* a server entry point to the next.  The script uses no cache.            *)
(* External services answer nondeterministically.                          *)
(***************************************************************************)
EXTENDS Integers, Sequences, FiniteSets, TLC

\* ---------------------------------------------------------------- bounds
NumKeys == 2        \* distinct issue keys the tracker may hand out
MaxMissing == 1     \* fields a request body may lack
MaxUnexpected == 1  \* members of a reply object with an unexpected shape
MaxLevels == 7      \* levels of elements below an extracted component
MaxChildren == 3    \* children of the root of a design tree with variants
MaxSiblings == 2    \* children of the root of a design tree to extract
MaxText == 2        \* characters of a string of the document's data

\* ------------------------------------------------------------ vocabulary
Keys == 1..NumKeys
NoKey == 0                      \* the empty string "" used for "no key yet"
NoUrl == <<>>                   \* the empty string "" used for "no url yet"
NoAccount == "null"             \* getCurrentUserAccountId's null
Emails == {"dev@example.com"}
AccountIds == {"acc-1"}
Modes == {"both", "jira_only", "fsd_only"}
ModeInputs == Modes \cup {"absent"}
UrlKinds == {"absent", "malformed", "partial", "ok"}
FigmaUrlKinds == {"absent", "malformed", "nokey", "ok"}
SubTasks == <<"FED", "BED", "QA">>
Entries == {"generate", "createComponentWithSubtasks", "script"}

VARIABLES
    entry,            \* entry point of the current run
    apiKeySet,        \* process.env.OPENAI_API_KEY is set
    accountIdCache,   \* lib/jira accountIdCache: email -> accountId
    body,             \* the parsed request body
    pc,               \* position in the running handler
    currentStep,      \* route.ts currentStep
    events,           \* the messages enqueued on the stream so far
    closed,           \* controller.close() has been called
    calls,            \* external calls issued in this run, with outcome
    reply,            \* the language model's reply to the analysis prompt
    aiContent,        \* the bundle generateContentWithAI returned
    parentKey, parentUrl, storyKeys, storyUrls, confluenceUrl,
    result,           \* createComponentWithSubtasks' result object
    script,           \* main()'s parentKey, completedTasks, failedTasks
    component,        \* formatComponentForDeepAI: the extracted component's tree
    elementCount,     \* formatComponentForDeepAI: elementCount
    stack,            \* analyzeElements: the pending forEach loops, innermost last
    walk,             \* analyzeElements: the calls made so far
    document,         \* the design tree a figma.ts function is applied to
    componentName,    \* the component name it is given
    variants,         \* findResponsiveVariants' result
    extracted,        \* extractComponentData's result
    fsdData,          \* the FSDData generateFSDContent is given
    fsdContent        \* the markup generateFSDContent returned, by pieces

vars == <<entry, apiKeySet, accountIdCache, body, pc, currentStep,
          events, closed, calls, reply, aiContent, parentKey, parentUrl,
          storyKeys, storyUrls, confluenceUrl, result, script,
          component, elementCount, stack, walk,
          document, componentName, variants, extracted, fsdData, fsdContent>>

\* the variables of the functions that are also modelled on their own
functionVars == <<component, elementCount, stack, walk,
                  document, componentName, variants, extracted, fsdData, fsdContent>>

\* --------------------------------------------------------------- helpers
Last(s) == s[Len(s)]

\* getIssueUrl: `${ATLASSIAN_BASE_URL}/browse/${issueKey}`
getIssueUrl(issueKey) == <<"browse", issueKey>>

\* createFSDPage's return value: `${ATLASSIAN_BASE_URL}/wiki${page._links.webui}`
PageUrl == <<"wiki", "webui">>

NoData == [none |-> TRUE]

\* One message on the stream (createSSEMessage of the object sent).
StepEvent(step, status, message, data) ==
    [type |-> "step", step |-> step, status |-> status,
     message |-> message, data |-> data]
ErrorEvent(message) ==
    [type |-> "error", step |-> 0, status |-> "",
     message |-> message, data |-> NoData]
StoryCreated(n, key) ==
    [type |-> "story_created", step |-> 0, status |-> "",
     message |-> SubTasks[n],
     data |-> [storyKey |-> key, storyUrl |-> getIssueUrl(key),
               storyNumber |-> n, totalStories |-> 3]]
StoryError(n) ==
    [type |-> "story_error", step |-> 0, status |-> "",
     message |-> SubTasks[n], data |-> [storyNumber |-> n]]
\* An optional field of a message: <<>> when JSON.stringify leaves it out
\* (undefined), <<v>> when it carries the value v.
Undefined == <<>>
Defined(v) == <<v>>
\* `v || undefined`, and `v.length > 0 ? v : undefined` for a list
OrUndefined(v, falsy) == IF v = falsy THEN Undefined ELSE Defined(v)
\* route.ts 348-361
CompleteEvent(pKey, pUrl, sKeys, sUrls, cUrl) ==
    [type |-> "complete", step |-> 0, status |-> "", message |-> "success",
     data |-> [jiraEpicKey |-> OrUndefined(pKey, NoKey),
               jiraEpicUrl |-> OrUndefined(pUrl, NoUrl),
               jiraStoryKeys |-> OrUndefined(sKeys, <<>>),
               jiraStoryUrls |-> OrUndefined(sUrls, <<>>),
               confluenceUrl |-> OrUndefined(cUrl, NoUrl),
               storiesGenerated |-> Len(sKeys)]]

\* One external call with its outcome.  target: what the call is about (the
\* breakpoint of an image export, the summary suffix of a ticket); key: the
\* issue key in the tracker's answer.
Call(service, op, target, ok) ==
    [service |-> service, op |-> op, target |-> target, ok |-> ok,
     issueType |-> "", parent |-> NoKey, assignee |-> NoAccount, key |-> NoKey]
IssueCall(issueType, summary, parent, assignee, answer) ==
    [service |-> "jira", op |-> "createIssue", target |-> summary,
     ok |-> answer # NoKey, issueType |-> issueType, parent |-> parent,
     assignee |-> assignee, key |-> answer]

\* ------------------------------------------------------- request bodies
BaseRequiredFields ==
    <<"figmaUrl", "figmaToken", "atlassianEmail", "atlassianToken", "componentName">>
AllFields == {BaseRequiredFields[i] : i \in 1..Len(BaseRequiredFields)}
                 \cup {"jiraProject", "confluenceSpace"}

\* A body: whether it is JSON at all, the fields other than figmaUrl that
\* are present (truthy), the kind of figmaUrl, the generation mode and the
\* Atlassian email.
Bodies ==
    {b \in [json : {TRUE}, present : SUBSET (AllFields \ {"figmaUrl"}),
            figmaUrl : FigmaUrlKinds, generationMode : ModeInputs,
            atlassianEmail : Emails] :
        Cardinality((AllFields \ {"figmaUrl"}) \ b.present)
          + (IF b.figmaUrl = "absent" THEN 1 ELSE 0) <= MaxMissing}
      \cup
    [json : {FALSE}, present : {{}}, figmaUrl : {"absent"},
     generationMode : {"absent"}, atlassianEmail : Emails]

\* body[field] is truthy
Present(b, field) ==
    IF field = "figmaUrl" THEN b.figmaUrl # "absent" ELSE field \in b.present

\* const generationMode = body.generationMode || "both"
GenerationMode(b) ==
    IF b.generationMode = "absent" THEN "both" ELSE b.generationMode

\* RequiredFields without the fields that depend on the mode
RequiredFieldsBaseOnly(mode) == BaseRequiredFields

\* route.ts 52-60: the required fields of a mode, in the order they are checked
RequiredFields(mode) ==
    BaseRequiredFields
      \o (IF mode \in {"both", "jira_only"} THEN <<"jiraProject">> ELSE <<>>)
      \o (IF mode \in {"both", "fsd_only"} THEN <<"confluenceSpace">> ELSE <<>>)

\* route.ts 62-68: some required field is falsy
MissingField(b) ==
    LET req == RequiredFields(GenerationMode(b))
    IN \E i \in 1..Len(req) : ~Present(b, req[i])

\* ------------------------------------------------- the stream's endings
\* Thrown with the close and the return forgotten
ThrownWithoutReturn(evs, message) ==
    [events |-> Append(evs, ErrorEvent(message)), closed |-> FALSE, pc |-> "finish"]

\* send({type: "error", ...}); controller.close(); return   (and the catch)
Thrown(evs, message) ==
    [events |-> Append(evs, ErrorEvent(message)), closed |-> TRUE, pc |-> "done"]

\* a stage went through: the events it sent, and where the handler goes next
Continue(evs, next) ==
    [events |-> evs, closed |-> FALSE, pc |-> next]

\* ------------------------------------------------------------ lib/jira
\* getCurrentUserAccountId without the Map: every call looks the id up
getCurrentUserAccountIdFailureCached(cache, email, outcome, account) ==
    IF email \in DOMAIN cache
    THEN [accountId |-> cache[email], cache |-> cache, calls |-> <<>>]
    ELSE LET found == IF outcome = "ok" THEN account ELSE NoAccount
         IN [accountId |-> found,
             cache |-> [e \in DOMAIN cache \cup {email} |->
                           IF e = email THEN found ELSE cache[e]],
             calls |-> <<Call("jira", "myself", email, outcome = "ok")>>]

getCurrentUserAccountIdUncached(cache, email, outcome, account) ==
    IF outcome = "ok"
    THEN [accountId |-> account, cache |-> cache,
          calls |-> <<Call("jira", "myself", email, TRUE)>>]
    ELSE [accountId |-> NoAccount, cache |-> cache,
          calls |-> <<Call("jira", "myself", email, FALSE)>>]

\* getCurrentUserAccountId(auth): the cached id if the email is cached,
\* otherwise one call of /rest/api/3/myself whose answer is `outcome`
\* ("ok", "notok" or "throw"); only an ok answer is stored.
getCurrentUserAccountId(cache, email, outcome, account) ==
    IF email \in DOMAIN cache
    THEN [accountId |-> cache[email], cache |-> cache, calls |-> <<>>]
    ELSE IF outcome = "ok"
    THEN [accountId |-> account,
          cache |-> [e \in DOMAIN cache \cup {email} |->
                        IF e = email THEN account ELSE cache[e]],
          calls |-> <<Call("jira", "myself", email, TRUE)>>]
    ELSE [accountId |-> NoAccount, cache |-> cache,
          calls |-> <<Call("jira", "myself", email, FALSE)>>]

LookupOutcomes == {"ok", "notok", "throw"}

\* What the tracker answers to the creation of a parent: a key, or NoKey for
\* a non-ok answer.
IssueAnswers == Keys \cup {NoKey}

\* What it answers to the creation of a sub-task: keys are handed out in
\* increasing order, so a created sub-task gets the key after the last one.
SubTaskAnswers(lastKey) == {lastKey + 1, NoKey}

\* ---------------------------------------------------------------- Init
\* ------------------------------- lib/claude generateContentWithAI, 321-340
\* AIGeneratedContent: the six keys of the bundle
SequenceKeys == {"stories", "endUserRequirements", "contentAuthorRequirements",
                 "designNotes", "fieldRequirements"}
BundleKeys == SequenceKeys \cup {"description"}

\* A JSON value: its type and its payload.  The payload is the text of a
\* string, the decimal text of a number, the items of an array; null has
\* none and the members of a nested object are not looked at.
JsonString(text) == [t |-> "string", v |-> <<text>>]
JsonNumber(digits) == [t |-> "number", v |-> <<digits>>]
JsonArray(items) == [t |-> "array", v |-> items]
JsonNull == [t |-> "null", v |-> <<>>]
JsonObject == [t |-> "object", v |-> <<>>]

\* JavaScript truthiness, as `||` tests it
Truthy(x) ==
    CASE x.t = "string" -> x.v # <<"">>
      [] x.t = "number" -> x.v # <<"0">>
      [] x.t = "null" -> FALSE
      [] OTHER -> TRUE

\* a JSON object with no member, and the bundle of a run that has none
EmptyObject == [k \in {} |-> JsonNull]
NoBundle == EmptyObject

\* response.choices[0]?.message?.content: nothing (the call has not
\* returned), no content, text that is not JSON, the text "null", or the
\* text of a JSON object
NoReply == [kind |-> "nothing", obj |-> EmptyObject]
NoContent == [kind |-> "empty", obj |-> EmptyObject]
NotJson == [kind |-> "text", obj |-> EmptyObject]
NullReply == [kind |-> "null", obj |-> EmptyObject]
ObjectReply(obj) == [kind |-> "object", obj |-> obj]

\* `${component.name} component`, and [] for the five sequences
DefaultValue(key) ==
    IF key = "description" THEN JsonString("component component") ELSE JsonArray(<<>>)

\* OrDefault written with `??`: only an absent or null member is replaced
OrDefaultNullish(obj, key) ==
    IF key \in DOMAIN obj /\ obj[key].t # "null" THEN obj[key] ELSE DefaultValue(key)

\* lines 329-334: parsed.key || default
OrDefault(obj, key) ==
    IF key \in DOMAIN obj /\ Truthy(obj[key]) THEN obj[key] ELSE DefaultValue(key)

\* generateContentWithAI with a catch block that returns the defaults
generateContentWithAILenient(content) ==
    IF content.kind = "empty"
    THEN [threw |-> TRUE, error |-> "No response from OpenAI", bundle |-> NoBundle]
    ELSE [threw |-> FALSE, error |-> "",
          bundle |-> [key \in BundleKeys |-> OrDefault(content.obj, key)]]

\* lines 321-340: what generateContentWithAI makes of the reply's content
generateContentWithAI(content) ==
    IF content.kind = "empty"
    THEN [threw |-> TRUE, error |-> "No response from OpenAI", bundle |-> NoBundle]
    ELSE IF content.kind \in {"text", "null"}
    THEN [threw |-> TRUE, error |-> "Failed to parse AI response", bundle |-> NoBundle]
    ELSE [threw |-> FALSE, error |-> "",
          bundle |-> [key \in BundleKeys |-> OrDefault(content.obj, key)]]

\* The replies generateContentWithAI is applied to.  A member of the expected
\* shape is a string for description and an array for the five sequences;
\* at most MaxUnexpected members of an object have another shape.
ExpectedShape(key) == IF key = "description" THEN "string" ELSE "array"
ExpectedValues(key) ==
    IF key = "description" THEN {JsonString(""), JsonString("X")}
    ELSE {JsonArray(<<>>), JsonArray(<<"a">>)}
JsonValues ==
    {JsonString(""), JsonString("X"), JsonNumber("0"), JsonNumber("5"),
     JsonArray(<<>>), JsonArray(<<"a">>), JsonNull, JsonObject}
UnexpectedValues(key) == {x \in JsonValues : x.t # ExpectedShape(key)}
ExpectedObjects ==
    UNION {{obj \in [D -> JsonValues] : \A key \in D : obj[key] \in ExpectedValues(key)}
           : D \in SUBSET BundleKeys}
RECURSIVE ObjectsWithUnexpected(_)
ObjectsWithUnexpected(n) ==
    IF n = 0 THEN ExpectedObjects
    ELSE LET less == ObjectsWithUnexpected(n - 1)
         IN less \cup {[key \in DOMAIN obj \cup {k} |-> IF key = k THEN x ELSE obj[key]] :
                          <<obj, k, x>> \in {t \in less \X BundleKeys \X JsonValues :
                                                t[3] \in UnexpectedValues(t[2])}}
Replies ==
    {NoContent, NotJson, NullReply}
      \cup {ObjectReply(obj) : obj \in ObjectsWithUnexpected(MaxUnexpected)}

\* lib/confluence generateFSDContent, 119-169: .map on a field that is not an
\* array, or .replace on a description that is not a string, is a TypeError
ContentThrows(bundle) ==
    \/ \E key \in SequenceKeys \ {"stories"} : bundle[key].t # "array"
    \/ bundle["description"].t # "string"

EmptyResult ==
    [parent |-> [key |-> NoKey, url |-> NoUrl, summary |-> ""],
     subtasks |-> [t \in {} |-> NoKey],
     completedTasks |-> <<>>, failedTasks |-> <<>>]

EmptyScript ==
    [parentKey |-> NoKey, completedTasks |-> <<>>, failedTasks |-> <<>>]

NoBody ==
    [json |-> FALSE, present |-> {}, figmaUrl |-> "absent",
     generationMode |-> "absent", atlassianEmail |-> ""]

\* a body with every field of the ticket entry points
FullBody(email) ==
    [json |-> TRUE, present |-> AllFields \ {"figmaUrl"}, figmaUrl |-> "ok",
     generationMode |-> "jira_only", atlassianEmail |-> email]

EntryBodies(e) == IF e = "generate" THEN Bodies ELSE {FullBody(m) : m \in Emails}

\* the locals of a run: at pc "entered" when an entry point is entered with
\* body b, at pc "idle" with no body when no run is in progress
Locals(e, b, at) ==
    /\ entry' = e
    /\ body' = b
    /\ pc' = at
    /\ currentStep' = 0
    /\ events' = <<>>
    /\ closed' = FALSE
    /\ calls' = <<>>
    /\ reply' = NoReply
    /\ aiContent' = NoBundle
    /\ parentKey' = NoKey
    /\ parentUrl' = NoUrl
    /\ storyKeys' = <<>>
    /\ storyUrls' = <<>>
    /\ confluenceUrl' = NoUrl
    /\ result' = EmptyResult
    /\ script' = EmptyScript

\* no function is being applied on its own
NoTree == <<>>
NoVariants == [k \in {} |-> ""]
TraversalAtRest ==
    /\ component = NoTree
    /\ elementCount = 0
    /\ stack = <<>>
    /\ walk = <<>>
FigmaAtRest ==
    /\ document = NoTree
    /\ componentName = <<>>
    /\ variants = NoVariants
    /\ extracted = NoTree
MarkupAtRest ==
    /\ fsdData = NoTree
    /\ fsdContent = <<>>
FunctionsAtRest == TraversalAtRest /\ FigmaAtRest /\ MarkupAtRest

Init ==
    /\ entry = "none"
    /\ body = NoBody
    /\ apiKeySet \in BOOLEAN
    /\ accountIdCache = [e \in {} |-> NoAccount]
    /\ pc = "idle"
    /\ currentStep = 0
    /\ events = <<>>
    /\ closed = FALSE
    /\ calls = <<>>
    /\ reply = NoReply
    /\ aiContent = NoBundle
    /\ parentKey = NoKey
    /\ parentUrl = NoUrl
    /\ storyKeys = <<>>
    /\ storyUrls = <<>>
    /\ confluenceUrl = NoUrl
    /\ result = EmptyResult
    /\ script = EmptyScript
    /\ FunctionsAtRest

\* variables of the other entry points, which the route leaves alone
EntryUnchanged == UNCHANGED <<entry, apiKeySet, body, result, script, functionVars>>
OthersUnchanged == EntryUnchanged /\ UNCHANGED reply

\* the stream after a segment of the handler
Emit(o) ==
    /\ events' = o.events
    /\ closed' = o.closed
    /\ pc' = o.pc

\* --------------------------------------- POST /api/generate, lines 47-74
Validate ==
    /\ entry = "generate"
    /\ pc = "entered"
    /\ Emit(IF ~body.json THEN Thrown(events, "invalid body")
            ELSE IF MissingField(body) THEN Thrown(events, "Missing required field")
            ELSE IF ~apiKeySet THEN Thrown(events, "OpenAI API key not configured")
            ELSE Continue(events, "fetch-design"))
    /\ UNCHANGED <<currentStep, calls, aiContent, parentKey, parentUrl,
                   storyKeys, storyUrls, confluenceUrl, accountIdCache>>
    /\ OthersUnchanged

\* ------------------------------------------------ step 1, lines 94-113
\* answer: "fail" (non-ok), "nodocument" (extractComponentData throws on the
\* reply), "ok"
FetchDesignOutcome(evs, step, urlKind, answer) ==
    LET started == Append(evs, StepEvent(step, "in_progress", "Fetching Figma data", NoData))
    IN IF urlKind = "malformed" THEN Thrown(started, "Invalid URL")
       ELSE IF urlKind = "nokey" THEN Thrown(started, "Invalid Figma URL")
       ELSE IF answer = "fail" THEN Thrown(started, "Figma API error")
       ELSE IF answer = "nodocument" THEN Thrown(started, "TypeError")
       ELSE Continue(Append(started,
                       StepEvent(step, "complete", "Figma data fetched", NoData)),
                     "export-screenshots")

FetchDesign ==
    /\ entry = "generate"
    /\ pc = "fetch-design"
    /\ currentStep' = currentStep + 1
    /\ \E answer \in {"fail", "nodocument", "ok"} :
        /\ Emit(FetchDesignOutcome(events, currentStep', body.figmaUrl, answer))
        /\ calls' = IF body.figmaUrl = "ok"
                    THEN Append(calls, Call("figma", "getFigmaFile", "document", answer # "fail"))
                    ELSE calls
    /\ UNCHANGED <<aiContent, parentKey, parentUrl,
                   storyKeys, storyUrls, confluenceUrl, accountIdCache>>
    /\ OthersUnchanged

\* ----------------------------------------------- step 2, lines 115-188

\* findResponsiveVariants on the fetched document: it throws, or it returns
\* with the tablet and mobile slots filled or not
VariantResults ==
    [throws : {FALSE}, tablet : BOOLEAN, mobile : BOOLEAN]
      \cup [throws : {TRUE}, tablet : {FALSE}, mobile : {FALSE}]

\* The body of the try block of lines 120-185.
\*   desktop     desktopNodeId is truthy
\*   av          the result of findResponsiveVariants
\*   tUrl, mUrl  body.tabletFigmaUrl, body.mobileFigmaUrl: absent, malformed
\*               (new URL throws), partial (no file key or no node id), ok
\*   tOk, mOk    the dedicated tablet / mobile image call succeeds
\*   mainOk      the image call on the main file succeeds
\* Result: the calls issued and whether the block ran to its end (done) or
\* left through the catch of line 186.
Screenshots(desktop, av, tUrl, mUrl, tOk, mOk, mainOk) ==
    LET r1 == ~av.throws
        r2 == r1 /\ tUrl # "malformed"
        r3 == r2 /\ mUrl # "malformed"
        tCall == r1 /\ tUrl = "ok"
        mCall == r2 /\ mUrl = "ok"
        toFetch == (IF desktop THEN {"desktop"} ELSE {})
                     \cup (IF tUrl = "absent" /\ av.tablet THEN {"tablet"} ELSE {})
                     \cup (IF mUrl = "absent" /\ av.mobile THEN {"mobile"} ELSE {})
        mainCall == r3 /\ toFetch # {}
    IN [calls |->
            (IF tCall THEN <<Call("figma", "getFigmaImages", "tablet", tOk)>> ELSE <<>>)
              \o (IF mCall THEN <<Call("figma", "getFigmaImages", "mobile", mOk)>> ELSE <<>>)
              \o (IF mainCall THEN <<Call("figma", "getFigmaImages", "main", mainOk)>> ELSE <<>>),
        done |-> r3 /\ (mainCall => mainOk)]

\* ScreenshotsOutcome with the catch of line 186 rethrowing
ScreenshotsOutcomeStrict(evs, step, shots) ==
    LET started == Append(evs, StepEvent(step, "in_progress", "Exporting screenshots", NoData))
    IN IF shots.done
       THEN Continue(Append(started, StepEvent(step, "complete",
                                               "screenshot(s) exported", NoData)),
                     "ai-analysis")
       ELSE Thrown(started, "Figma Images API error")

\* lines 179-188: the stage's closing event, from the try block or from the catch
ScreenshotsOutcome(evs, step, shots) ==
    LET started == Append(evs, StepEvent(step, "in_progress", "Exporting screenshots", NoData))
    IN Continue(Append(started,
                  StepEvent(step, "complete",
                            IF shots.done THEN "screenshot(s) exported"
                            ELSE "Screenshots skipped (optional)",
                            NoData)),
                "ai-analysis")

ExportScreenshots ==
    /\ entry = "generate"
    /\ pc = "export-screenshots"
    /\ currentStep' = currentStep + 1
    /\ \E desktop \in BOOLEAN, av \in VariantResults, tUrl \in UrlKinds, mUrl \in UrlKinds,
          tOk \in BOOLEAN, mOk \in BOOLEAN, mainOk \in BOOLEAN :
        LET shots == Screenshots(desktop, av, tUrl, mUrl, tOk, mOk, mainOk)
        IN /\ Emit(ScreenshotsOutcome(events, currentStep', shots))
           /\ calls' = calls \o shots.calls
    /\ UNCHANGED <<aiContent, parentKey, parentUrl,
                   storyKeys, storyUrls, confluenceUrl, accountIdCache>>
    /\ OthersUnchanged

\* ----------------------------------------------- step 3, lines 190-201
\* generateContentWithAI: the completion call fails; or it answers without
\* content; or with text that is not JSON, or the text "null"; or with a
\* JSON object, here one whose members have the expected shape and one with
\* a string where a sequence is expected
RouteReplies ==
    {NoContent, NotJson, NullReply,
     ObjectReply([key \in {"description"} |-> JsonString("X")]),
     ObjectReply([key \in {"designNotes"} |-> JsonString("X")])}
AnalysisAnswers ==
    [failed : {TRUE}, reply : {NoReply}] \cup [failed : {FALSE}, reply : RouteReplies]

AiAnalysisOutcome(evs, step, answer) ==
    LET started == Append(evs, StepEvent(step, "in_progress", "Deep AI Analysis", NoData))
        parsed == generateContentWithAI(answer.reply)
    IN IF answer.failed THEN Thrown(started, "OpenAI API error")
       ELSE IF parsed.threw THEN Thrown(started, parsed.error)
       ELSE Continue(Append(started,
                       StepEvent(step, "complete", "Deep analysis complete", NoData)),
                     "generate-description")

AiAnalysis ==
    /\ entry = "generate"
    /\ pc = "ai-analysis"
    /\ currentStep' = currentStep + 1
    /\ \E answer \in AnalysisAnswers :
        /\ Emit(AiAnalysisOutcome(events, currentStep', answer))
        /\ calls' = Append(calls, Call("llm", "chat", "analysis", ~answer.failed))
        /\ reply' = answer.reply
        /\ aiContent' = IF answer.failed THEN aiContent
                        ELSE generateContentWithAI(answer.reply).bundle
    /\ UNCHANGED <<parentKey, parentUrl,
                   storyKeys, storyUrls, confluenceUrl, accountIdCache>>
    /\ EntryUnchanged

\* ----------------------------------------------- step 4, lines 203-216
\* DescriptionOutcome with the ticket block entered whatever the mode
DescriptionOutcomeAlwaysTickets(evs, step, mode, ok) ==
    LET started == Append(evs, StepEvent(step, "in_progress", "Generating description", NoData))
    IN IF ~ok THEN Thrown(started, "OpenAI API error")
       ELSE Continue(Append(started,
                       StepEvent(step, "complete", "Description ready", NoData)),
                     "create-parent-ticket")

\* generateEpicDescription: the call fails, or answers (an empty answer is
\* replaced by a default text)
DescriptionOutcome(evs, step, mode, ok) ==
    LET started == Append(evs, StepEvent(step, "in_progress", "Generating description", NoData))
    IN IF ~ok THEN Thrown(started, "OpenAI API error")
       ELSE Continue(Append(started,
                       StepEvent(step, "complete", "Description ready", NoData)),
                     IF mode \in {"both", "jira_only"} THEN "create-parent-ticket"
                     ELSE IF mode \in {"both", "fsd_only"} THEN "create-document"
                     ELSE "finish")

GenerateDescription ==
    /\ entry = "generate"
    /\ pc = "generate-description"
    /\ currentStep' = currentStep + 1
    /\ \E ok \in BOOLEAN :
        /\ Emit(DescriptionOutcome(events, currentStep', GenerationMode(body), ok))
        /\ calls' = Append(calls, Call("llm", "chat", "description", ok))
    /\ UNCHANGED <<aiContent, parentKey, parentUrl,
                   storyKeys, storyUrls, confluenceUrl, accountIdCache>>
    /\ OthersUnchanged

\* ----------------------------------------------- step 5, lines 218-236
\* ParentOutcome with a failed creation swallowed like a sub-task's
ParentOutcomeSwallowed(evs, step, answer) ==
    Continue(Append(evs, StepEvent(step, "in_progress", "Creating Parent Ticket", NoData))
               \o (IF answer = NoKey THEN <<>>
                   ELSE <<StepEvent(step, "complete", "Parent created",
                                    [epicKey |-> answer, epicUrl |-> getIssueUrl(answer)])>>),
             "create-fed")

\* createParentTask -> createJiraIssue: the identity lookup, then the creation
ParentOutcome(evs, step, answer) ==
    LET started == Append(evs, StepEvent(step, "in_progress", "Creating Parent Ticket", NoData))
    IN IF answer = NoKey THEN Thrown(started, "Jira API error")
       ELSE Continue(Append(started,
                       StepEvent(step, "complete", "Parent created",
                                 [epicKey |-> answer, epicUrl |-> getIssueUrl(answer)])),
                     "create-fed")

CreateParentTicket ==
    /\ entry = "generate"
    /\ pc = "create-parent-ticket"
    /\ currentStep' = currentStep + 1
    /\ \E outcome \in LookupOutcomes, account \in AccountIds, answer \in IssueAnswers :
        LET id == getCurrentUserAccountId(accountIdCache, body.atlassianEmail,
                                          outcome, account)
        IN /\ accountIdCache' = id.cache
           /\ calls' = calls \o id.calls
                         \o <<IssueCall("Story", "Parent", NoKey, id.accountId, answer)>>
           /\ Emit(ParentOutcome(events, currentStep', answer))
           /\ parentKey' = IF answer = NoKey THEN parentKey ELSE answer
           /\ parentUrl' = IF answer = NoKey THEN parentUrl ELSE getIssueUrl(answer)
    /\ UNCHANGED <<aiContent, storyKeys, storyUrls, confluenceUrl>>
    /\ OthersUnchanged

\* ----------------------------------------------- step 6, lines 238-323
\* SubTaskEvents with empty catch blocks: a failed creation sends nothing
SubTaskEventsSilentCatch(evs, step, n, answer, keys, urls) ==
    (IF n = 1
     THEN Append(evs, StepEvent(step, "in_progress", "Creating FED/BED/QA Sub-tasks", NoData))
     ELSE evs)
      \o (IF answer = NoKey THEN <<>> ELSE <<StoryCreated(n, answer)>>)
      \o (IF n = Len(SubTasks)
          THEN <<StepEvent(step, "complete", "Sub-tasks created",
                           [storyKeys |-> keys, storyUrls |-> urls])>>
          ELSE <<>>)

\* The n-th try/catch of the stage: the events it sends.  The first one is
\* preceded by the stage's in_progress event, the last one followed by its
\* complete event.
SubTaskEvents(evs, step, n, answer, keys, urls) ==
    (IF n = 1
     THEN Append(evs, StepEvent(step, "in_progress", "Creating FED/BED/QA Sub-tasks", NoData))
     ELSE evs)
      \o <<IF answer = NoKey THEN StoryError(n) ELSE StoryCreated(n, answer)>>
      \o (IF n = Len(SubTasks)
          THEN <<StepEvent(step, "complete", "Sub-tasks created",
                           [storyKeys |-> keys, storyUrls |-> urls])>>
          ELSE <<>>)

\* the last key the tracker returned in this request
RouteLastKey == IF storyKeys = <<>> THEN parentKey ELSE Last(storyKeys)

\* the parent key a sub-task creation of the route is given: parent.key
RouteSubTaskParent == parentKey

\* the handler's position before each of the three try blocks
SubTaskPc == <<"create-fed", "create-bed", "create-qa">>

\* AfterSubTask with the QA sub-task created before the BED one
AfterSubTaskQaFirst(n, mode) ==
    IF n = 1 THEN "create-qa"
    ELSE IF n = 3 THEN "create-bed"
    ELSE IF mode \in {"both", "fsd_only"} THEN "create-document"
    ELSE "finish"

\* AfterSubTask with the document block left out
AfterSubTaskSkipsDocument(n, mode) ==
    IF n < Len(SubTasks) THEN SubTaskPc[n + 1] ELSE "finish"

\* where the handler goes after the n-th sub-task
AfterSubTask(n, mode) ==
    IF n < Len(SubTasks) THEN SubTaskPc[n + 1]
    ELSE IF mode \in {"both", "fsd_only"} THEN "create-document"
    ELSE "finish"

CreateSubTask(n) ==
    /\ entry = "generate"
    /\ pc = SubTaskPc[n]
    /\ currentStep' = IF n = 1 THEN currentStep + 1 ELSE currentStep
    /\ \E outcome \in LookupOutcomes, account \in AccountIds,
          answer \in SubTaskAnswers(RouteLastKey) :
              LET id == getCurrentUserAccountId(accountIdCache, body.atlassianEmail,
                                                outcome, account)
                  keys == IF answer = NoKey THEN storyKeys ELSE Append(storyKeys, answer)
                  urls == IF answer = NoKey THEN storyUrls
                          ELSE Append(storyUrls, getIssueUrl(answer))
              IN /\ accountIdCache' = id.cache
                 /\ calls' = calls \o id.calls
                               \o <<IssueCall("Sub-task", SubTasks[n], RouteSubTaskParent,
                                              id.accountId, answer)>>
                 /\ storyKeys' = keys
                 /\ storyUrls' = urls
                 /\ Emit(Continue(SubTaskEvents(events, currentStep', n, answer, keys, urls),
                                  AfterSubTask(n, GenerationMode(body))))
    /\ UNCHANGED <<aiContent, parentKey, parentUrl, confluenceUrl>>
    /\ OthersUnchanged

\* ----------------------------------------------- step 7, lines 326-345
\* DocumentOutcome with the page creation in a try/catch of its own, like a
\* sub-task's: a failure is reported and the request goes on to its end
DocumentOutcomeSwallowed(evs, step, content, ok) ==
    LET started == Append(evs, StepEvent(step, "in_progress", "Creating Confluence FSD", NoData))
    IN IF ContentThrows(content) \/ ~ok
       THEN Continue(Append(started, ErrorEvent("Confluence API error")), "finish")
       ELSE Continue(Append(started,
                       StepEvent(step, "complete", "FSD created in Confluence",
                                 [confluenceUrl |-> PageUrl])),
                     "finish")

\* createFSDPage: generateFSDContent throws on a malformed bundle before any
\* call is made; otherwise one page creation, which fails or succeeds
DocumentOutcome(evs, step, content, ok) ==
    LET started == Append(evs, StepEvent(step, "in_progress", "Creating Confluence FSD", NoData))
    IN IF ContentThrows(content) THEN Thrown(started, "TypeError")
       ELSE IF ~ok THEN Thrown(started, "Confluence API error")
       ELSE Continue(Append(started,
                       StepEvent(step, "complete", "FSD created in Confluence",
                                 [confluenceUrl |-> PageUrl])),
                     "finish")

CreateDocument ==
    /\ entry = "generate"
    /\ pc = "create-document"
    /\ currentStep' = currentStep + 1
    /\ \E ok \in BOOLEAN :
        /\ Emit(DocumentOutcome(events, currentStep', aiContent, ok))
        /\ calls' = IF ContentThrows(aiContent) THEN calls
                    ELSE Append(calls, Call("confluence", "createPage", "FSD", ok))
        /\ confluenceUrl' = IF ~ContentThrows(aiContent) /\ ok THEN PageUrl ELSE confluenceUrl
    /\ UNCHANGED <<aiContent, parentKey, parentUrl,
                   storyKeys, storyUrls, accountIdCache>>
    /\ OthersUnchanged

\* --------------------------------------------------- lines 347-363
\* Success with the document URL left out of the final message
SuccessWithoutDocument(evs, pKey, pUrl, sKeys, sUrls, cUrl) ==
    [events |-> Append(evs, CompleteEvent(pKey, pUrl, sKeys, sUrls, NoUrl)),
     closed |-> TRUE, pc |-> "done"]

Success(evs, pKey, pUrl, sKeys, sUrls, cUrl) ==
    [events |-> Append(evs, CompleteEvent(pKey, pUrl, sKeys, sUrls, cUrl)),
     closed |-> TRUE, pc |-> "done"]

Finish ==
    /\ entry = "generate"
    /\ pc = "finish"
    /\ Emit(Success(events, parentKey, parentUrl, storyKeys, storyUrls, confluenceUrl))
    /\ UNCHANGED <<currentStep, calls, aiContent, parentKey, parentUrl,
                   storyKeys, storyUrls, confluenceUrl, accountIdCache>>
    /\ OthersUnchanged

\* ---------------------- lib/jira createComponentWithSubtasks, 216-320
RouteUnchanged ==
    UNCHANGED <<entry, apiKeySet, body, currentStep, events, closed, reply, aiContent,
                parentKey, parentUrl, storyKeys, storyUrls, confluenceUrl,
                functionVars>>

\* the key of the last entry of a completed-task list
LastKey(completed) ==
    IF completed = <<>> THEN NoKey ELSE completed[Len(completed)].key

\* ParentResult with a catch block that records nothing
ParentResultUnrecorded(res, answer) ==
    IF answer = NoKey THEN res
    ELSE [res EXCEPT !.parent = [key |-> answer, url |-> getIssueUrl(answer),
                                 summary |-> "component"],
                     !.completedTasks = Append(@, [type |-> "Parent", key |-> answer])]

\* lines 242-260: the parent's try block and its catch, which returns
ParentResult(res, answer) ==
    IF answer = NoKey
    THEN [res EXCEPT !.failedTasks =
                Append(@, [type |-> "Parent", error |-> "Jira API error"])]
    ELSE [res EXCEPT !.parent = [key |-> answer, url |-> getIssueUrl(answer),
                                 summary |-> "component"],
                     !.completedTasks = Append(@, [type |-> "Parent", key |-> answer])]

\* AfterParent with the parent's creation tried again after a failure
AfterParentRetried(answer) == IF answer = NoKey THEN "entered" ELSE "create-fed"

\* AfterParent with the catch block's return forgotten
AfterParentNoReturn(answer) == "create-fed"

\* where createComponentWithSubtasks goes after the parent's try block
AfterParent(answer) == IF answer = NoKey THEN "done" ELSE SubTaskPc[1]

LibParent ==
    /\ entry = "createComponentWithSubtasks"
    /\ pc = "entered"
    /\ \E outcome \in LookupOutcomes, account \in AccountIds, answer \in IssueAnswers :
        LET id == getCurrentUserAccountId(accountIdCache, body.atlassianEmail,
                                          outcome, account)
        IN /\ accountIdCache' = id.cache
           /\ calls' = calls \o id.calls
                         \o <<IssueCall("Story", "Parent", NoKey, id.accountId, answer)>>
           /\ result' = ParentResult(result, answer)
           /\ pc' = AfterParent(answer)
    /\ script' = script
    /\ RouteUnchanged

\* the field of result.subtasks of the n-th sub-task
SubTaskField == <<"fed", "bed", "qa">>

\* SubTaskResult with an empty catch block: a failure is not recorded
SubTaskResultFailureDropped(res, n, answer) ==
    IF answer = NoKey THEN res
    ELSE [res EXCEPT !.subtasks =
                [f \in DOMAIN @ \cup {SubTaskField[n]} |->
                    IF f = SubTaskField[n] THEN answer ELSE @[f]],
                     !.completedTasks = Append(@, [type |-> SubTasks[n], key |-> answer])]

\* SubTaskResult with a sub-task's success left out of completedTasks
SubTaskResultFieldOnly(res, n, answer) ==
    IF answer = NoKey
    THEN [res EXCEPT !.failedTasks =
                Append(@, [type |-> SubTasks[n], error |-> "Jira API error"])]
    ELSE [res EXCEPT !.subtasks =
                [f \in DOMAIN @ \cup {SubTaskField[n]} |->
                    IF f = SubTaskField[n] THEN answer ELSE @[f]]]

\* lines 262-317: the n-th sub-task's try block and its catch
SubTaskResult(res, n, answer) ==
    IF answer = NoKey
    THEN [res EXCEPT !.failedTasks =
                Append(@, [type |-> SubTasks[n], error |-> "Jira API error"])]
    ELSE [res EXCEPT !.subtasks =
                [f \in DOMAIN @ \cup {SubTaskField[n]} |->
                    IF f = SubTaskField[n] THEN answer ELSE @[f]],
                     !.completedTasks = Append(@, [type |-> SubTasks[n], key |-> answer])]

\* the parent key a sub-task creation of the library is given: result.parent.key
LibSubTaskParent == result.parent.key

LibSubTask(n) ==
    /\ entry = "createComponentWithSubtasks"
    /\ pc = SubTaskPc[n]
    /\ \E outcome \in LookupOutcomes, account \in AccountIds,
          answer \in SubTaskAnswers(LastKey(result.completedTasks)) :
        LET id == getCurrentUserAccountId(accountIdCache, body.atlassianEmail,
                                          outcome, account)
        IN /\ accountIdCache' = id.cache
           /\ calls' = calls \o id.calls
                         \o <<IssueCall("Sub-task", SubTasks[n], LibSubTaskParent,
                                        id.accountId, answer)>>
           /\ result' = SubTaskResult(result, n, answer)
           /\ pc' = IF n < Len(SubTasks) THEN SubTaskPc[n + 1] ELSE "done"
    /\ script' = script
    /\ RouteUnchanged

\* ------------------------------ create-jira-tickets.js main, 135-242
\* lines 149-170: the parent's try block and its catch, which returns
ScriptParentResult(sc, answer) ==
    IF answer = NoKey
    THEN [sc EXCEPT !.failedTasks =
                Append(@, [type |-> "Parent", error |-> "Jira API error"])]
    ELSE [sc EXCEPT !.parentKey = answer,
                    !.completedTasks = Append(@, [type |-> "Parent", key |-> answer,
                                                  url |-> getIssueUrl(answer)])]

ScriptParent ==
    /\ entry = "script"
    /\ pc = "entered"
    /\ \E answer \in IssueAnswers :
        /\ calls' = Append(calls, IssueCall("Story", "Parent", NoKey, NoAccount,
                                            answer))
        /\ script' = ScriptParentResult(script, answer)
        /\ pc' = AfterParent(answer)
    /\ UNCHANGED <<result, accountIdCache>>
    /\ RouteUnchanged

\* lines 172-241: the n-th sub-task's try block and its catch
ScriptSubTaskResult(sc, n, answer) ==
    IF answer = NoKey
    THEN [sc EXCEPT !.failedTasks =
                Append(@, [type |-> SubTasks[n], error |-> "Jira API error"])]
    ELSE [sc EXCEPT !.completedTasks =
                Append(@, [type |-> SubTasks[n], key |-> answer,
                           url |-> getIssueUrl(answer)])]

\* the parent key a sub-task creation of the script is given: parentKey
ScriptSubTaskParent == script.parentKey

ScriptSubTask(n) ==
    /\ entry = "script"
    /\ pc = SubTaskPc[n]
    /\ \E answer \in SubTaskAnswers(LastKey(script.completedTasks)) :
        /\ calls' = Append(calls, IssueCall("Sub-task", SubTasks[n], ScriptSubTaskParent,
                                            NoAccount, answer))
        /\ script' = ScriptSubTaskResult(script, n, answer)
        /\ pc' = IF n < Len(SubTasks) THEN SubTaskPc[n + 1] ELSE "done"
    /\ UNCHANGED <<result, accountIdCache>>
    /\ RouteUnchanged

\* ------------------------------------------------------------ the runs
\* An entry point is entered: a request arrives at the server, or the script
\* is started.
NewRequest ==
    /\ pc = "idle"
    /\ \E e \in Entries : \E b \in EntryBodies(e) : Locals(e, b, "entered")
    /\ UNCHANGED <<apiKeySet, accountIdCache, functionVars>>

\* The run is over and its locals are gone; the account-id cache is a
\* module-level Map and is kept.
Return ==
    /\ pc = "done"
    /\ Locals("none", NoBody, "idle")
    /\ UNCHANGED <<apiKeySet, accountIdCache, functionVars>>

Next ==
    \/ Validate
    \/ FetchDesign
    \/ ExportScreenshots
    \/ AiAnalysis
    \/ GenerateDescription
    \/ CreateParentTicket
    \/ \E n \in 1..Len(SubTasks) : CreateSubTask(n)
    \/ CreateDocument
    \/ Finish
    \/ LibParent
    \/ \E n \in 1..Len(SubTasks) : LibSubTask(n)
    \/ ScriptParent
    \/ \E n \in 1..Len(SubTasks) : ScriptSubTask(n)
    \/ NewRequest
    \/ Return

Spec == Init /\ [][Next]_vars

\* ------------------------------------------- the functions on their own
\* No entry point is running: the variables of the workflow at rest.
WorkflowAtRest ==
    /\ body = NoBody
    /\ apiKeySet = TRUE
    /\ accountIdCache = [e \in {} |-> NoAccount]
    /\ currentStep = 0
    /\ events = <<>>
    /\ closed = FALSE
    /\ calls = <<>>
    /\ parentKey = NoKey
    /\ parentUrl = NoUrl
    /\ storyKeys = <<>>
    /\ storyUrls = <<>>
    /\ confluenceUrl = NoUrl
    /\ result = EmptyResult
    /\ script = EmptyScript
WorkflowUnchanged ==
    UNCHANGED <<entry, body, apiKeySet, accountIdCache, currentStep, events, closed,
                calls, parentKey, parentUrl, storyKeys, storyUrls, confluenceUrl,
                result, script>>

\* generateContentWithAI, from the completion's content on (claude.ts 321-340)
ParseInit ==
    /\ WorkflowAtRest
    /\ FunctionsAtRest
    /\ entry = "generateContentWithAI"
    /\ pc = "called"
    /\ reply \in Replies
    /\ aiContent = NoBundle

ParseReturns ==
    /\ entry = "generateContentWithAI"
    /\ pc = "called"
    /\ ~generateContentWithAI(reply).threw
    /\ aiContent' = generateContentWithAI(reply).bundle
    /\ pc' = "returned"
    /\ reply' = reply
    /\ WorkflowUnchanged
    /\ UNCHANGED functionVars

ParseThrows ==
    /\ entry = "generateContentWithAI"
    /\ pc = "called"
    /\ generateContentWithAI(reply).threw
    /\ pc' = "threw"
    /\ UNCHANGED <<reply, aiContent>>
    /\ WorkflowUnchanged
    /\ UNCHANGED functionVars

ParseNext == ParseReturns \/ ParseThrows
SpecParse == ParseInit /\ [][ParseNext]_vars

\* ------------- lib/claude formatComponentForDeepAI, analyzeElements, 20-106
MAX_ELEMENTS == 100
MAX_DEPTH == 5

\* The element tree of an extracted component, by levels: component.children
\* has shape[1] elements (depth 0), each of them shape[2] children (depth 1),
\* and so on; the elements of the last level have none.
Widths == {1, 3}
Components ==
    UNION {[1..n -> Widths] : n \in 1..MaxLevels}
      \cup {<<MAX_ELEMENTS + 1>>, <<MAX_ELEMENTS + 1, 1>>}
\* el.children.length of an element at a depth
ChildCount(shape, depth) == IF depth + 2 <= Len(shape) THEN shape[depth + 2] ELSE 0

\* Rejected with the count compared by > instead of >=
RejectedCountOffByOne(count, depth) == count > MAX_ELEMENTS \/ depth > MAX_DEPTH

\* Rejected with the two bounds joined by && instead of ||
RejectedWhenBoth(count, depth) == count >= MAX_ELEMENTS /\ depth > MAX_DEPTH

\* line 42: if (elementCount >= MAX_ELEMENTS || depth > MAX_DEPTH) return;
Rejected(count, depth) == count >= MAX_ELEMENTS \/ depth > MAX_DEPTH

\* the forEach loops that are over are left
RECURSIVE Unwind(_)
Unwind(frames) ==
    IF frames # <<>> /\ Last(frames).left = 0
    THEN Unwind(SubSeq(frames, 1, Len(frames) - 1))
    ELSE frames

\* the innermost loop hands its next element to analyzeElements
NextCall(frames) == [frames EXCEPT ![Len(frames)].left = @ - 1]
CallEntry(count, depth, visited) == [depth |-> depth, count |-> count, visited |-> visited]

\* line 104: component.children.forEach((child) => analyzeElements(child))
TraverseInit ==
    /\ WorkflowAtRest
    /\ reply = NoReply
    /\ aiContent = NoBundle
    /\ FigmaAtRest
    /\ MarkupAtRest
    /\ entry = "formatComponentForDeepAI"
    /\ pc = "analyzeElements"
    /\ component \in Components
    /\ elementCount = 0
    /\ stack = <<[depth |-> 0, left |-> component[1]]>>
    /\ walk = <<>>

TraverseUnchanged ==
    /\ WorkflowUnchanged
    /\ UNCHANGED <<reply, aiContent, component, document, componentName,
                   variants, extracted, fsdData, fsdContent>>

\* lines 41-101: analyzeElements is called on an element and goes on: the
\* element is counted and examined, and its children are looped over
AnalyzeVisits ==
    /\ entry = "formatComponentForDeepAI"
    /\ pc = "analyzeElements"
    /\ LET depth == Last(stack).depth
       IN /\ ~Rejected(elementCount, depth)
          /\ elementCount' = elementCount + 1
          /\ walk' = Append(walk, CallEntry(elementCount, depth, TRUE))
          /\ stack' = Unwind(Append(NextCall(stack),
                                    [depth |-> depth + 1,
                                     left |-> ChildCount(component, depth)]))
    /\ pc' = IF stack' = <<>> THEN "returned" ELSE pc
    /\ TraverseUnchanged

\* line 42: analyzeElements is called on an element and returns at once
AnalyzeReturns ==
    /\ entry = "formatComponentForDeepAI"
    /\ pc = "analyzeElements"
    /\ LET depth == Last(stack).depth
       IN /\ Rejected(elementCount, depth)
          /\ elementCount' = elementCount
          /\ walk' = Append(walk, CallEntry(elementCount, depth, FALSE))
          /\ stack' = Unwind(NextCall(stack))
    /\ pc' = IF stack' = <<>> THEN "returned" ELSE pc
    /\ TraverseUnchanged

TraverseNext == AnalyzeVisits \/ AnalyzeReturns
SpecTraverse == TraverseInit /\ [][TraverseNext]_vars

\* ------------------------------------------------------- lib/figma.ts
\* A string is the sequence of its characters, so that the string tests of the
\* code are computed on the names themselves.
UpperCase == <<"A", "B", "C", "D", "E", "F", "G", "H", "I", "J", "K", "L", "M",
               "N", "O", "P", "Q", "R", "S", "T", "U", "V", "W", "X", "Y", "Z">>
LowerCase == <<"a", "b", "c", "d", "e", "f", "g", "h", "i", "j", "k", "l", "m",
               "n", "o", "p", "q", "r", "s", "t", "u", "v", "w", "x", "y", "z">>
LowerChar(c) ==
    IF \E i \in DOMAIN UpperCase : UpperCase[i] = c
    THEN LowerCase[CHOOSE i \in DOMAIN UpperCase : UpperCase[i] = c]
    ELSE c
toLowerCase(str) == [i \in 1..Len(str) |-> LowerChar(str[i])]
includes(str, part) ==
    \E i \in 0..(Len(str) - Len(part)) : \A j \in 1..Len(part) : str[i + j] = part[j]
startsWith(str, part) == Len(part) <= Len(str) /\ SubSeq(str, 1, Len(part)) = part
\* str.trim()
trim(str) ==
    LET solid == {i \in DOMAIN str : str[i] # " "}
    IN IF solid = {} THEN <<>>
       ELSE SubSeq(str, CHOOSE i \in solid : \A j \in solid : i <= j,
                        CHOOSE i \in solid : \A j \in solid : j <= i)
\* str.split(" ")[0]
FirstWord(str) ==
    LET spaces == {i \in DOMAIN str : str[i] = " "}
    IN IF spaces = {} THEN str
       ELSE SubSeq(str, 1, (CHOOSE i \in spaces : \A j \in spaces : i <= j) - 1)

\* the node names of the design trees
Footer == <<"F", "o", "o", "t", "e", "r">>
FooterDesktop == <<"F", "o", "o", "t", "e", "r", " ", "D", "e", "s", "k", "t", "o", "p">>
FooterTablet == <<"F", "o", "o", "t", "e", "r", " ", "T", "a", "b", "l", "e", "t">>
FooterMobile == <<"F", "o", "o", "t", "e", "r", " ", "M", "o", "b", "i", "l", "e">>
SmallTablet == <<"S", "m", "a", "l", "l", " ", "T", "a", "b", "l", "e", "t">>
Logo == <<"L", "o", "g", "o">>
Page == <<"P", "a", "g", "e">>

\* FigmaNode (lines 1-26): id, name, type, the optional bounding box and the
\* optional children.  An id is a path of numbers, the empty one standing for
\* a missing id; box is NoBox or the box's width and height in tenths of a
\* pixel.  Text, style, fills and strokes are left out.
NoId == <<>>
NoBox == <<>>
Node(id, name, type, box, hasChildren, children) ==
    [id |-> id, name |-> name, type |-> type, box |-> box,
     hasChildren |-> hasChildren, children |-> children]
Leaf(id, name, type, box) == Node(id, name, type, box, FALSE, <<>>)
\* a node with children when the sequence is not empty
Parent(id, name, type, box, children) ==
    Node(id, name, type, box, children # <<>>, children)

\* the nodes of a tree, the root included
RECURSIVE Nodes(_)
Nodes(node) ==
    {node} \cup UNION {Nodes(node.children[i]) : i \in DOMAIN node.children}

\* ------------------------------------ findResponsiveVariants, 308-397
Slots == {"desktop", "tablet", "mobile"}
desktopKeywords ==
    {<<"d", "e", "s", "k", "t", "o", "p">>,
     <<"l", "g">>,
     <<"l", "a", "r", "g", "e">>,
     <<"w", "e", "b">>,
     <<"d", "e", "f", "a", "u", "l", "t">>}
tabletKeywords ==
    {<<"t", "a", "b", "l", "e", "t">>,
     <<"i", "p", "a", "d">>,
     <<"m", "d">>,
     <<"m", "e", "d", "i", "u", "m">>}
mobileKeywords ==
    {<<"m", "o", "b", "i", "l", "e">>,
     <<"p", "h", "o", "n", "e">>,
     <<"s", "m">>,
     <<"s", "m", "a", "l", "l">>,
     <<"i", "o", "s">>,
     <<"a", "n", "d", "r", "o", "i", "d">>}
\* keywords.some(k => name.includes(k))
MatchesAny(name, keywords) == \E k \in keywords : includes(name, k)

\* Filled for a code that assigns a slot whether or not it is filled
FilledNever(v, slot) == FALSE

\* variants.slot is set (and not the empty string)
Filled(v, slot) == slot \in DOMAIN v /\ v[slot] # NoId
Assign(v, slot, id) == [s \in DOMAIN v \cup {slot} |-> IF s = slot THEN id ELSE v[s]]

\* lines 364-386: the loop over the children of a component set
RECURSIVE ComponentSetLoop(_, _, _)
ComponentSetLoop(children, i, v) ==
    IF i > Len(children) THEN v
    ELSE LET child == children[i]
             childName == toLowerCase(child.name)
             v1 == IF /\ ~Filled(v, "desktop")
                      /\ \/ MatchesAny(childName, desktopKeywords)
                         \/ /\ ~MatchesAny(childName, tabletKeywords)
                            /\ ~MatchesAny(childName, mobileKeywords)
                   THEN Assign(v, "desktop", child.id) ELSE v
             v2 == IF ~Filled(v1, "tablet") /\ MatchesAny(childName, tabletKeywords)
                   THEN Assign(v1, "tablet", child.id) ELSE v1
             v3 == IF ~Filled(v2, "mobile") /\ MatchesAny(childName, mobileKeywords)
                   THEN Assign(v2, "mobile", child.id) ELSE v2
         IN ComponentSetLoop(children, i + 1, v3)

\* Related for a search that takes every node of the tree
RelatedAlways(nodeName, nameLower) == TRUE

\* line 325: the node is related to the component
Related(nodeName, nameLower) ==
    includes(nodeName, nameLower) \/ includes(nameLower, FirstWord(nodeName))

\* lines 321-361: searchNode, and its loop over the children
RECURSIVE searchNode(_, _, _)
RECURSIVE SearchChildren(_, _, _, _)
searchNode(node, nameLower, v) ==
    LET nodeName == toLowerCase(node.name)
        rel == Related(nodeName, nameLower)
        v1 == IF rel /\ ~Filled(v, "desktop") /\ MatchesAny(nodeName, desktopKeywords)
              THEN Assign(v, "desktop", node.id) ELSE v
        v2 == IF rel /\ ~Filled(v1, "tablet") /\ MatchesAny(nodeName, tabletKeywords)
              THEN Assign(v1, "tablet", node.id) ELSE v1
        v3 == IF rel /\ ~Filled(v2, "mobile") /\ MatchesAny(nodeName, mobileKeywords)
              THEN Assign(v2, "mobile", node.id) ELSE v2
    IN IF node.hasChildren THEN SearchChildren(node.children, 1, nameLower, v3) ELSE v3
SearchChildren(children, i, nameLower, v) ==
    IF i > Len(children) THEN v
    ELSE SearchChildren(children, i + 1, nameLower, searchNode(children[i], nameLower, v))

\* Fallback without the assignment of the root's id
FallbackMissing(v, root) == v

\* lines 391-394: the root stands in for a missing desktop variant
Fallback(v, root) ==
    IF ~Filled(v, "desktop") /\ root.id # NoId THEN Assign(v, "desktop", root.id) ELSE v

findResponsiveVariants(root, name) ==
    LET nameLower == toLowerCase(name)
        found == IF root.type = "COMPONENT_SET" /\ root.hasChildren
                 THEN ComponentSetLoop(root.children, 1, NoVariants)
                 ELSE searchNode(root, nameLower, NoVariants)
    IN Fallback(found, root)

\* The design trees the resolver is applied to: a root with or without an
\* id, a component set or a frame, without children or with up to
\* MaxChildren of them, the last of which may have a child of its own.
ChildNames == {FooterDesktop, FooterTablet, FooterMobile, Footer, SmallTablet}
NestedOptions ==
    {<<>>, <<Leaf(<<2, 1>>, FooterDesktop, "COMPONENT", NoBox)>>}
ChildSequences ==
    UNION {{[i \in 1..n |-> Parent(<<1, i>>, names[i], "COMPONENT", NoBox,
                                   IF i = n THEN nested ELSE <<>>)] :
              names \in [1..n -> ChildNames], nested \in NestedOptions}
           : n \in 1..MaxChildren}
VariantDocuments ==
    {Node(id, name, type, NoBox, TRUE, children) :
        id \in {NoId, <<0>>}, name \in {Footer, FooterMobile},
        type \in {"COMPONENT_SET", "FRAME"}, children \in ChildSequences \cup {<<>>}}
      \cup {Leaf(id, name, type, NoBox) :
              id \in {NoId, <<0>>}, name \in {Footer, FooterMobile},
              type \in {"COMPONENT_SET", "FRAME"}}

VariantsInit ==
    /\ WorkflowAtRest
    /\ reply = NoReply
    /\ aiContent = NoBundle
    /\ TraversalAtRest
    /\ MarkupAtRest
    /\ entry = "findResponsiveVariants"
    /\ pc = "called"
    /\ document \in VariantDocuments
    /\ componentName = Footer
    /\ variants = NoVariants
    /\ extracted = NoTree

FigmaUnchanged ==
    /\ WorkflowUnchanged
    /\ UNCHANGED <<reply, aiContent, component, elementCount, stack, walk,
                   document, componentName, fsdData, fsdContent>>

VariantsReturn ==
    /\ entry = "findResponsiveVariants"
    /\ pc = "called"
    /\ variants' = findResponsiveVariants(document, componentName)
    /\ pc' = "returned"
    /\ extracted' = extracted
    /\ FigmaUnchanged

VariantsNext == VariantsReturn
SpecVariants == VariantsInit /\ [][VariantsNext]_vars

\* --------------------------- extractElement, 89-124, and its callers
\* Math.round of a length given in tenths of a pixel
Round(tenths) == (tenths + 5) \div 10
NoFields == [k \in {} |-> <<>>]
BoxWidth(box) == box[1]
BoxHeight(box) == box[2]

\* lines 95-100 for a code that reports a missing box as 0 by 0
ElementDimensionsZero(box) ==
    [dimensions |-> [width |-> IF box = NoBox THEN 0 ELSE Round(BoxWidth(box)),
                     height |-> IF box = NoBox THEN 0 ELSE Round(BoxHeight(box))]]

\* lines 95-100: the dimensions field of an element, set only for a node
\* with a bounding box
ElementDimensions(box) ==
    IF box # NoBox
    THEN [dimensions |-> [width |-> Round(BoxWidth(box)),
                          height |-> Round(BoxHeight(box))]]
    ELSE NoFields

\* The projection of a node: name, type, and the fields set on the way.  The
\* text, the font and the colours are not modelled.
RECURSIVE extractElement(_)
extractElement(node) ==
    [name |-> node.name, type |-> node.type]
        @@ ElementDimensions(node.box)
        @@ (IF node.hasChildren /\ Len(node.children) > 0
            THEN [children |-> [i \in DOMAIN node.children |->
                                   extractElement(node.children[i])]]
            ELSE NoFields)

\* lines 207-230: the first node, in depth-first order, of a renderable type
\* and with the component's name, or none (the empty sequence)
Renderable == {"FRAME", "COMPONENT", "INSTANCE", "GROUP", "COMPONENT_SET"}
\* NameMatches without the space or slash after the component's name
NameMatchesAnyPrefix(nodeName, nameLower) == startsWith(nodeName, nameLower)

NameMatches(nodeName, nameLower) ==
    \/ nodeName = nameLower
    \/ startsWith(nodeName, nameLower \o <<" ">>)
    \/ startsWith(nodeName, nameLower \o <<"/">>)
RECURSIVE findComponentByName(_, _)
RECURSIVE FindInChildren(_, _, _)
findComponentByName(node, name) ==
    LET nameLower == trim(toLowerCase(name))
        nodeName == trim(toLowerCase(node.name))
    IN IF NameMatches(nodeName, nameLower) /\ node.type \in Renderable
       THEN <<node>>
       ELSE IF node.hasChildren THEN FindInChildren(node.children, 1, name) ELSE <<>>
FindInChildren(children, i, name) ==
    IF i > Len(children) THEN <<>>
    ELSE LET found == findComponentByName(children[i], name)
         IN IF found # <<>> THEN found ELSE FindInChildren(children, i + 1, name)

\* line 273: the node the component is extracted from
TargetOf(node, name) ==
    LET exactComponent == findComponentByName(node, name)
    IN IF exactComponent # <<>> THEN exactComponent[1] ELSE node

\* lines 267-285
extractComponentData(node, name) ==
    LET targetNode == TargetOf(node, name)
    IN [name |-> IF name # <<>> THEN name ELSE targetNode.name,
        type |-> targetNode.type,
        dimensions |->
            [width |-> IF targetNode.box = NoBox THEN Round(0)
                       ELSE Round(BoxWidth(targetNode.box)),
             height |-> IF targetNode.box = NoBox THEN Round(0)
                        ELSE Round(BoxHeight(targetNode.box))],
        children |-> IF targetNode.hasChildren
                     THEN [i \in DOMAIN targetNode.children |->
                              extractElement(targetNode.children[i])]
                     ELSE <<>>,
        nodeId |-> targetNode.id]

\* The design trees the extraction is applied to: a root with up to
\* MaxSiblings children, each with or without a box and with or without a
\* boxless child of its own.  The children are a group named as the
\* component in other letters and with a variant after a slash, a text
\* named as the component, or a frame whose name goes on after the
\* component's; a child's child is a component named "Footer Desktop".
SomeBox == <<1045, 250>>
FooterSlash == <<" ", "F", "O", "O", "T", "E", "R", "/", "a">>
Footers == <<"F", "o", "o", "t", "e", "r", "s">>
FooterUpper == <<"F", "O", "O", "T", "E", "R", " ">>
ElementKinds == {<<FooterSlash, "GROUP">>, <<Footer, "TEXT">>, <<Footers, "FRAME">>}
ElementSequences ==
    UNION {{[i \in 1..n |-> Parent(<<1, i>>, kinds[i][1], kinds[i][2], boxes[i],
                                   IF nested[i] THEN <<Leaf(<<2, i>>, FooterDesktop,
                                                            "COMPONENT", NoBox)>>
                                   ELSE <<>>)] :
              kinds \in [1..n -> ElementKinds], boxes \in [1..n -> {NoBox, SomeBox}],
              nested \in [1..n -> BOOLEAN]}
           : n \in 1..MaxSiblings}
ExtractDocuments ==
    {Node(<<0>>, name, "FRAME", box, TRUE, children) :
        name \in {Page, Footer}, box \in {NoBox, SomeBox},
        children \in ElementSequences \cup {<<>>}}
      \cup {Leaf(<<0>>, name, "FRAME", box) :
              name \in {Page, Footer}, box \in {NoBox, SomeBox}}

ExtractInit ==
    /\ WorkflowAtRest
    /\ reply = NoReply
    /\ aiContent = NoBundle
    /\ TraversalAtRest
    /\ MarkupAtRest
    /\ entry = "extractComponentData"
    /\ pc = "called"
    /\ document \in ExtractDocuments
    /\ componentName \in {FooterUpper, <<>>}
    /\ variants = NoVariants
    /\ extracted = NoTree

ExtractReturn ==
    /\ entry = "extractComponentData"
    /\ pc = "called"
    /\ extracted' = extractComponentData(document, componentName)
    /\ pc' = "returned"
    /\ variants' = variants
    /\ FigmaUnchanged

ExtractNext == ExtractReturn
SpecExtract == ExtractInit /\ [][ExtractNext]_vars

\* ------------------------------------------------- lib/confluence.ts
\* str.replace(/ch/g, with)
RECURSIVE ReplaceAll(_, _, _)
ReplaceAll(str, ch, with) ==
    IF str = <<>> THEN <<>>
    ELSE (IF Head(str) = ch THEN with ELSE <<Head(str)>>) \o ReplaceAll(Tail(str), ch, with)

AmpEntity == <<"&", "a", "m", "p", ";">>
LtEntity == <<"&", "l", "t", ";">>
GtEntity == <<"&", "g", "t", ";">>
QuotEntity == <<"&", "q", "u", "o", "t", ";">>

\* escapeHtml with the ampersand replaced after the other three characters
escapeHtmlAmpersandLast(text) ==
    IF text = <<>> THEN <<>>
    ELSE ReplaceAll(ReplaceAll(ReplaceAll(ReplaceAll(text,
             "<", LtEntity), ">", GtEntity), "\"", QuotEntity), "&", AmpEntity)

\* lines 71-78
escapeHtml(text) ==
    IF text = <<>> THEN <<>>
    ELSE ReplaceAll(ReplaceAll(ReplaceAll(ReplaceAll(text,
             "&", AmpEntity), "<", LtEntity), ">", GtEntity), "\"", QuotEntity)

\* lines 80-84: url.match(/browse\/([A-Z]+-\d+)/), its group or the url
Digits == {"0", "1", "2", "3", "4", "5", "6", "7", "8", "9"}
UpperLetters == {UpperCase[i] : i \in DOMAIN UpperCase}
BrowsePath == <<"b", "r", "o", "w", "s", "e", "/">>
\* the number of characters of the set that str has from position `from` on
RECURSIVE RunLength(_, _, _)
RunLength(str, from, set) ==
    IF from > Len(str) \/ str[from] \notin set THEN 0
    ELSE 1 + RunLength(str, from + 1, set)
\* the pattern matches with "browse/" at position i
KeyMatchAt(url, i) ==
    LET j == i + Len(BrowsePath)
        letters == RunLength(url, j, UpperLetters)
        dash == j + letters
    IN /\ i + Len(BrowsePath) - 1 <= Len(url)
       /\ SubSeq(url, i, j - 1) = BrowsePath
       /\ letters > 0
       /\ dash <= Len(url)
       /\ url[dash] = "-"
       /\ RunLength(url, dash + 1, Digits) > 0
extractJiraKey(url) ==
    LET matches == {i \in DOMAIN url : KeyMatchAt(url, i)}
    IN IF url = <<>> THEN <<>>
       ELSE IF matches = {} THEN url
       ELSE LET i == CHOOSE m \in matches : \A n \in matches : m <= n
                j == i + Len(BrowsePath)
                dash == j + RunLength(url, j, UpperLetters)
            IN SubSeq(url, j, dash + RunLength(url, dash + 1, Digits))

\* The markup is kept by pieces: a piece of the template, named, or a string
\* interpolated into it, with the field of the data it was made from (and
\* the position in the field's list, 0 for a field that is no list).
TemplatePiece(name) == [from |-> "template", index |-> 0, text |-> <<name>>]
Interpolated(field, index, text) == [from |-> field, index |-> index, text |-> text]

RECURSIVE Flatten(_)
Flatten(seqs) == IF seqs = <<>> THEN <<>> ELSE Head(seqs) \o Flatten(Tail(seqs))

\* list.map(item => `<li><p>${escapeHtml(item)}</p></li>`).join("\n")
ListItems(field, list) ==
    Flatten([i \in DOMAIN list |->
                <<TemplatePiece("<li><p>"), Interpolated(field, i, escapeHtml(list[i])),
                  TemplatePiece("</p></li>")>>])

\* lines 168-178: one row of the field table
FieldRow(d, index) ==
    LET field == d.fieldRequirements[index]
    IN <<TemplatePiece("<tr><td><p>")>>
         \o (IF index = 1
             THEN <<Interpolated("componentName", 0, escapeHtml(d.componentName))>>
             ELSE <<>>)
         \o <<TemplatePiece("</p></td><td><p>"),
              Interpolated("element", index, escapeHtml(field.element)),
              TemplatePiece("</p></td><td><p>"),
              Interpolated("fieldType", index, escapeHtml(field.fieldType)),
              TemplatePiece("</p></td><td><p>"),
              TemplatePiece(IF field.required THEN "Required" ELSE "Optional"),
              TemplatePiece("</p></td><td><p>"),
              Interpolated("dataSource", index, escapeHtml(field.dataSource)),
              TemplatePiece("</p></td><td><p>"),
              Interpolated("display", index, escapeHtml(field.display)),
              TemplatePiece("</p></td><td><p>"),
              Interpolated("notes", index, escapeHtml(field.notes)),
              TemplatePiece("</p></td></tr>")>>

\* lines 202-204: one cell of the design references
ImageCell(d, slot) ==
    IF d.imageUrls[slot] # <<>>
    THEN <<TemplatePiece("<td><p><ac:image><ri:url ri:value=\""),
           Interpolated(slot, 0, escapeHtml(d.imageUrls[slot])),
           TemplatePiece("\" /></ac:image></p></td>")>>
    ELSE <<TemplatePiece("<td><p><em>Awaiting design</em></p></td>")>>

\* lines 86-219
generateFSDContent(d) ==
    LET jiraKey == extractJiraKey(d.jiraEpicUrl)
        headerSection ==
            <<TemplatePiece("header")>>
              \o (IF d.jiraEpicUrl # <<>>
                  THEN <<TemplatePiece("<a href=\""),
                         Interpolated("jiraEpicUrl", 0, escapeHtml(d.jiraEpicUrl)),
                         TemplatePiece("\">"),
                         Interpolated("jiraKey", 0, escapeHtml(jiraKey)),
                         TemplatePiece(": "),
                         Interpolated("componentName", 0, escapeHtml(d.componentName)),
                         TemplatePiece("</a>")>>
                  ELSE <<>>)
              \o <<TemplatePiece("<a href=\""),
                   Interpolated("figmaUrl", 0, escapeHtml(d.figmaUrl)),
                   TemplatePiece("\">Figma</a>")>>
        descriptionSection ==
            <<TemplatePiece("<li><p>"),
              Interpolated("description", 0, escapeHtml(d.description)),
              TemplatePiece("</p></li>"), TemplatePiece("Design Notes")>>
              \o ListItems("designNotes", d.designNotes)
        acceptanceCriteriaSection ==
            <<TemplatePiece("As an end user")>>
              \o ListItems("functionalRequirements", d.functionalRequirements)
              \o <<TemplatePiece("As a content author")>>
              \o ListItems("contentAuthorRequirements", d.contentAuthorRequirements)
        fieldTableSection ==
            <<TemplatePiece("Field Level Requirements")>>
              \o Flatten([i \in DOMAIN d.fieldRequirements |-> FieldRow(d, i)])
        designReferencesSection ==
            <<TemplatePiece("Design references")>>
              \o ImageCell(d, "desktop") \o ImageCell(d, "tablet") \o ImageCell(d, "mobile")
    IN headerSection \o descriptionSection \o acceptanceCriteriaSection
         \o fieldTableSection \o designReferencesSection

\* The data the markup is generated from.  One string of the data at a time
\* ranges over every text of up to MaxText characters, among them the four
\* characters that are escaped; the other strings are the same plain text.
\* An image URL that is not given is the empty string.
Alphabet == {"&", "<", ">", "\"", "a"}
Texts == UNION {[1..n -> Alphabet] : n \in 0..MaxText}
PlainText == <<"a", "<">>
IssueUrl == <<"a", "&", "/", "b", "r", "o", "w", "s", "e", "/", "A", "B", "-", "1", "2", "\"">>
StringFields ==
    {"componentName", "figmaUrl", "jiraEpicUrl", "description", "designNotes",
     "functionalRequirements", "contentAuthorRequirements", "element", "fieldType",
     "dataSource", "display", "notes", "desktop", "tablet", "mobile"}
FieldTexts(field) == IF field = "jiraEpicUrl" THEN Texts \cup {IssueUrl} ELSE Texts
\* the data with the text in the one field and the plain text in the others
DataWith(hot, text) ==
    LET v(field) == IF field = hot THEN text ELSE PlainText
        row(first) ==
            [element |-> IF first THEN v("element") ELSE PlainText,
             fieldType |-> IF first THEN v("fieldType") ELSE PlainText,
             required |-> first,
             dataSource |-> IF first THEN v("dataSource") ELSE PlainText,
             display |-> IF first THEN v("display") ELSE PlainText,
             notes |-> IF first THEN v("notes") ELSE PlainText]
    IN [componentName |-> v("componentName"),
        figmaUrl |-> v("figmaUrl"),
        jiraEpicUrl |-> v("jiraEpicUrl"),
        description |-> v("description"),
        designNotes |-> <<v("designNotes"), PlainText>>,
        functionalRequirements |-> <<PlainText, v("functionalRequirements")>>,
        contentAuthorRequirements |-> <<v("contentAuthorRequirements")>>,
        fieldRequirements |-> <<row(TRUE), row(FALSE)>>,
        imageUrls |-> [slot \in Slots |->
                          IF slot = hot THEN text
                          ELSE IF slot = "desktop" THEN PlainText ELSE <<>>]]
FSDDatas == {DataWith(hot, text) : <<hot, text>> \in
                {p \in StringFields \X (Texts \cup {IssueUrl}) : p[2] \in FieldTexts(p[1])}}

MarkupInit ==
    /\ WorkflowAtRest
    /\ reply = NoReply
    /\ aiContent = NoBundle
    /\ TraversalAtRest
    /\ FigmaAtRest
    /\ entry = "generateFSDContent"
    /\ pc = "called"
    /\ fsdData \in FSDDatas
    /\ fsdContent = <<>>

MarkupReturn ==
    /\ entry = "generateFSDContent"
    /\ pc = "called"
    /\ fsdContent' = generateFSDContent(fsdData)
    /\ pc' = "returned"
    /\ WorkflowUnchanged
    /\ UNCHANGED <<reply, aiContent, component, elementCount, stack, walk,
                   document, componentName, variants, extracted, fsdData>>

MarkupNext == MarkupReturn
SpecMarkup == MarkupInit /\ [][MarkupNext]_vars

\* The stages of a mode, in order (route.ts 94-345; page.tsx getSteps).
Stages(mode) ==
    <<"fetch-design", "export-screenshots", "ai-analysis", "generate-description">>
      \o (IF mode \in {"both", "jira_only"}
          THEN <<"create-parent-ticket", "create-subtasks">> ELSE <<>>)
      \o (IF mode \in {"both", "fsd_only"} THEN <<"create-document">> ELSE <<>>)

\* the message of the in_progress event that opens a stage
StageMessage(stage) ==
    CASE stage = "fetch-design" -> "Fetching Figma data"
      [] stage = "export-screenshots" -> "Exporting screenshots"
      [] stage = "ai-analysis" -> "Deep AI Analysis"
      [] stage = "generate-description" -> "Generating description"
      [] stage = "create-parent-ticket" -> "Creating Parent Ticket"
      [] stage = "create-subtasks" -> "Creating FED/BED/QA Sub-tasks"
      [] stage = "create-document" -> "Creating Confluence FSD"

\* the stage an external call is made in (the identity lookup is made by the
\* first ticket creation that finds the cache empty: the parent's at the earliest)
StageOfCall(c) ==
    CASE c.op = "getFigmaFile" -> "fetch-design"
      [] c.op = "getFigmaImages" -> "export-screenshots"
      [] c.op = "chat" /\ c.target = "analysis" -> "ai-analysis"
      [] c.op = "chat" /\ c.target = "description" -> "generate-description"
      [] c.op = "myself" -> "create-parent-ticket"
      [] c.op = "createIssue" /\ c.issueType = "Story" -> "create-parent-ticket"
      [] c.op = "createIssue" /\ c.issueType = "Sub-task" -> "create-subtasks"
      [] c.op = "createPage" -> "create-document"

\* the index of a stage in a mode, 0 if the mode does not have it
StageIndex(mode, stage) ==
    IF \E k \in 1..Len(Stages(mode)) : Stages(mode)[k] = stage
    THEN CHOOSE k \in 1..Len(Stages(mode)) : Stages(mode)[k] = stage
    ELSE 0

HardRequired ==
    {"fetch-design", "ai-analysis", "generate-description", "create-parent-ticket"}

\* ============================================================ claims
Generating == entry = "generate"
Mode == GenerationMode(body)
Terminal(e) == e.type \in {"complete", "error"}
TerminalIndexes == {i \in DOMAIN events : Terminal(events[i])}
EndedInError == closed /\ events # <<>> /\ Last(events).type = "error"
EndedInSuccess == closed /\ events # <<>> /\ Last(events).type = "complete"
IsStep(e, k, status) == e.type = "step" /\ e.step = k /\ e.status = status

\* C1: the stream of a generation request holds no terminal event while it
\* is open, and once it is closed it holds exactly one terminal event
\* ("complete" or "error"), which is its last event; the handler is then over.
C1_ExactlyOneTerminalEvent ==
    Generating =>
        /\ closed <=> pc = "done"
        /\ closed => TerminalIndexes = {Len(events)}
        /\ ~closed => TerminalIndexes = {}

\* a request that got through all stages with a failed sub-task in between
C1_Witness ==
    /\ Generating
    /\ EndedInSuccess
    /\ \E i \in DOMAIN events : events[i].type = "story_error"
    /\ \E i \in DOMAIN calls : ~calls[i].ok

\* C2: when a hard-required stage fails, the stream ends with the error event
\* right after that stage's in_progress event, no event of a later stage and
\* no story event is on the stream, and no call of a later stage is in the
\* call log; a failed call of a hard-required stage is the last call made.
C2_HardFailureAborts ==
    Generating =>
        /\ \A i \in DOMAIN calls :
              (calls[i].op # "myself" /\ ~calls[i].ok
                  /\ StageOfCall(calls[i]) \in HardRequired)
              => /\ i = Len(calls)
                 /\ EndedInError
                 /\ currentStep = StageIndex(Mode, StageOfCall(calls[i]))
        /\ (EndedInError /\ currentStep >= 1
               /\ Stages(Mode)[currentStep] \in HardRequired)
              => /\ pc = "done"
                 /\ Len(events) >= 2
                 /\ IsStep(events[Len(events) - 1], currentStep, "in_progress")
                 /\ \A j \in DOMAIN events :
                       /\ events[j].type = "step" => events[j].step <= currentStep
                       /\ events[j].type \notin {"story_created", "story_error"}
                 /\ \A i \in DOMAIN calls :
                       StageIndex(Mode, StageOfCall(calls[i])) \in 1..currentStep

\* the parent ticket could not be created: the request ended there
C2_Witness ==
    /\ Generating
    /\ EndedInError
    /\ Mode = "both"
    /\ currentStep >= 1
    /\ Stages(Mode)[currentStep] = "create-parent-ticket"
    /\ calls # <<>>
    /\ Last(calls).op = "createIssue" /\ ~Last(calls).ok

\* the sub-task creation calls and the story events of the run, in order
IsSubTaskCall(c) == c.op = "createIssue" /\ c.issueType = "Sub-task"
IsParentCall(c) == c.op = "createIssue" /\ c.issueType = "Story"
IsStory(e) == e.type \in {"story_created", "story_error"}
IsOk(c) == c.ok
SubCalls == SelectSeq(calls, IsSubTaskCall)
StoryEvents == SelectSeq(events, IsStory)
KeysOf(cs) == [i \in 1..Len(cs) |-> cs[i].key]
TypesOf(ts) == [i \in 1..Len(ts) |-> ts[i].type]
OkSubCalls == SelectSeq(SubCalls, IsOk)
FailedSubCalls == SelectSeq(SubCalls, LAMBDA c : ~c.ok)
TargetsOf(cs) == [i \in 1..Len(cs) |-> cs[i].target]
StageComplete(stage) ==
    /\ StageIndex(Mode, stage) # 0
    /\ \E j \in DOMAIN events : IsStep(events[j], StageIndex(Mode, stage), "complete")
\* the three sub-task calls were issued, FED then BED then QA
AllThreeIssued == TargetsOf(SubCalls) = SubTasks

\* C3: every sub-task creation of the route is answered by exactly one story
\* event of its number (story_created with the returned key iff the call
\* succeeded, story_error otherwise), a failure leaves the stream open and the
\* handler at the next sub-task, and the stage's complete event comes after
\* all three calls (FED, BED, QA), with no error event before it, and lists
\* exactly the keys of the calls that succeeded.  A request whose parent
\* ticket was created does not end before that event.  In the library and in
\* the script, a run whose parent was created ends with all three calls
\* issued, each failure in failedTasks and each success in completedTasks.
C3_SubTasksIndependent ==
    /\ Generating =>
        /\ Len(StoryEvents) = Len(SubCalls)
        /\ \A n \in 1..Len(SubCalls) :
              /\ SubCalls[n].target = SubTasks[n]
              /\ StoryEvents[n].data.storyNumber = n
              /\ StoryEvents[n].type = "story_created" <=> SubCalls[n].ok
              /\ SubCalls[n].ok => StoryEvents[n].data.storyKey = SubCalls[n].key
        /\ \A n \in 1..Len(SubTasks) :
              pc = SubTaskPc[n] => ~closed /\ Len(SubCalls) = n - 1
        /\ \A j \in DOMAIN events :
              (events[j].type = "step" /\ events[j].message = "Sub-tasks created")
              => /\ events[j].status = "complete"
                 /\ AllThreeIssued
                 /\ events[j].data.storyKeys = KeysOf(OkSubCalls)
                 /\ \A i \in 1..j : events[i].type # "error"
        /\ (closed /\ StageComplete("create-parent-ticket"))
              => StageComplete("create-subtasks")
    /\ (entry = "createComponentWithSubtasks" /\ pc = "done"
           /\ result.parent.key # NoKey)
        => /\ AllThreeIssued
           /\ TypesOf(result.failedTasks) = TargetsOf(FailedSubCalls)
           /\ TypesOf(result.completedTasks) = <<"Parent">> \o TargetsOf(OkSubCalls)
    /\ (entry = "script" /\ pc = "done" /\ script.parentKey # NoKey)
        => /\ AllThreeIssued
           /\ TypesOf(script.failedTasks) = TargetsOf(FailedSubCalls)
           /\ TypesOf(script.completedTasks) = <<"Parent">> \o TargetsOf(OkSubCalls)

\* FED and QA failed, BED was created, and the stage reported complete
C3_Witness ==
    /\ Generating
    /\ StageComplete("create-subtasks")
    /\ Len(SubCalls) = 3
    /\ ~SubCalls[1].ok /\ SubCalls[2].ok /\ ~SubCalls[3].ok

\* C4: every sub-task creation call comes after a parent creation call of
\* the same run that succeeded, and carries the key that call returned; after
\* a failed parent creation no sub-task creation is made.
C4_SubTasksNeedParent ==
    /\ \A i \in DOMAIN calls :
          IsSubTaskCall(calls[i])
          => \E j \in 1..(i - 1) :
                /\ IsParentCall(calls[j])
                /\ calls[j].ok
                /\ calls[j].key # NoKey
                /\ calls[i].parent = calls[j].key
    /\ (\E j \in DOMAIN calls : IsParentCall(calls[j]) /\ ~calls[j].ok)
          => SubCalls = <<>>
    /\ Len(SelectSeq(calls, IsParentCall)) <= 1

\* the script created a sub-task under the parent key 2 it was given
C4_Witness ==
    /\ entry = "script"
    /\ \E i \in DOMAIN calls :
          IsSubTaskCall(calls[i]) /\ calls[i].ok /\ calls[i].parent = 2

Skipped == "Screenshots skipped (optional)"
Exported == "screenshot(s) exported"
IsImageCall(c) == c.op = "getFigmaImages"

\* C5 as claimed: whenever an image-export call failed, the stage's closing
\* event reports the screenshots as skipped.
C5_AnyFailureReportedSkipped ==
    (Generating /\ currentStep >= 2)
    => ((\E i \in DOMAIN calls : IsImageCall(calls[i]) /\ ~calls[i].ok)
           => events[4].message = Skipped)

\* C5, amended: whatever happens inside export-screenshots, the stage's
\* in_progress event is followed by its complete event, no error event is
\* sent, and ai-analysis is started next.  The complete event reports
\* "skipped" when the image call on the main file failed; a failed dedicated
\* tablet or mobile call alone leaves the normal "exported" report.
C5_BestEffortScreenshots ==
    (Generating /\ currentStep >= 2)
    => /\ Len(events) >= 4
       /\ IsStep(events[3], 2, "in_progress")
       /\ IsStep(events[4], 2, "complete")
       /\ events[4].message \in {Skipped, Exported}
       /\ (\E i \in DOMAIN calls :
              IsImageCall(calls[i]) /\ calls[i].target = "main" /\ ~calls[i].ok)
            => events[4].message = Skipped
       /\ \A j \in 1..4 : events[j].type # "error"
       /\ IF Len(events) = 4
          THEN pc = "ai-analysis" /\ ~closed
          ELSE IsStep(events[5], 3, "in_progress")
                 /\ events[5].message = StageMessage("ai-analysis")

\* the image call on the main file failed, the stage reported skipped, and
\* the analysis was started and went through
C5_Witness ==
    /\ Generating
    /\ \E i \in DOMAIN calls :
          IsImageCall(calls[i]) /\ calls[i].target = "main" /\ ~calls[i].ok
    /\ Len(events) >= 6
    /\ events[4].message = Skipped
    /\ IsStep(events[6], 3, "complete")

DocAttempted ==
    \E j \in DOMAIN events :
        events[j].type = "step" /\ events[j].message = StageMessage("create-document")
IsPageCall(c) == c.op = "createPage"

\* C6: create-document is entered only in the modes that have it and only
\* after every earlier hard-required stage (and, with tickets, the sub-task
\* stage) completed; a request of such a mode that got that far does not end
\* without entering it; in jira_only mode it is never entered and no page call
\* is made, in fsd_only mode no call goes to the issue tracker; a page call is
\* made only inside the stage, and when the stage does not complete the
\* request ends with the error event, a failed page call being the last call.
C6_DocumentStage ==
    Generating =>
        /\ DocAttempted
             => /\ Mode \in {"fsd_only", "both"}
                /\ StageComplete("fetch-design")
                /\ StageComplete("ai-analysis")
                /\ StageComplete("generate-description")
                /\ Mode = "both" => /\ StageComplete("create-parent-ticket")
                                    /\ StageComplete("create-subtasks")
        /\ (closed /\ Mode = "fsd_only" /\ StageComplete("generate-description"))
             => DocAttempted
        /\ (closed /\ Mode = "both" /\ StageComplete("create-parent-ticket"))
             => DocAttempted
        /\ Mode = "jira_only"
             => ~DocAttempted /\ \A i \in DOMAIN calls : ~IsPageCall(calls[i])
        /\ Mode = "fsd_only" => \A i \in DOMAIN calls : calls[i].service # "jira"
        /\ \A i \in DOMAIN calls :
              IsPageCall(calls[i])
              => /\ DocAttempted
                 /\ ~calls[i].ok => (i = Len(calls) /\ EndedInError)
        /\ (DocAttempted /\ ~StageComplete("create-document")) => EndedInError

\* tickets were created, then the page creation failed
C6_Witness ==
    /\ Generating
    /\ Mode = "both"
    /\ DocAttempted
    /\ \E i \in DOMAIN events : events[i].type = "story_created"
    /\ calls # <<>> /\ IsPageCall(Last(calls)) /\ ~Last(calls).ok
    /\ EndedInError

\* C7 as claimed: when the stream has ended, every step that sent an
\* in_progress event has later sent a step event of the same index with
\* status complete or error.
C7_EveryStartedStageEnds ==
    (Generating /\ closed)
    => \A i \in DOMAIN events :
          (events[i].type = "step" /\ events[i].status = "in_progress")
          => \E j \in (i + 1)..Len(events) :
                /\ events[j].type = "step"
                /\ events[j].step = events[i].step
                /\ events[j].status \in {"complete", "error"}

IsStepEvent(e) == e.type = "step"
StepEvents == SelectSeq(events, IsStepEvent)
StageCount(mode) ==
    CASE mode = "both" -> 7 [] mode = "jira_only" -> 6 [] mode = "fsd_only" -> 5

\* C8: the step events of a request are a prefix of in_progress 1, complete 1,
\* in_progress 2, complete 2, ..., in_progress N, complete N, where stage k is
\* the k-th stage of the mode and N is 7, 6 or 5; a request that ends in success
\* has sent all 2N of them; story events lie between the in_progress and the
\* complete event of create-subtasks.
C8_StagesInOrder ==
    Generating =>
        /\ Len(Stages(Mode)) = StageCount(Mode)
        /\ Len(StepEvents) <= 2 * StageCount(Mode)
        /\ \A i \in 1..Len(StepEvents) :
              /\ StepEvents[i].step = (i + 1) \div 2
              /\ StepEvents[i].status = IF i % 2 = 1 THEN "in_progress" ELSE "complete"
              /\ i % 2 = 1
                   => StepEvents[i].message = StageMessage(Stages(Mode)[(i + 1) \div 2])
        /\ currentStep = (Len(StepEvents) + 1) \div 2
        /\ EndedInSuccess => Len(StepEvents) = 2 * StageCount(Mode)
        /\ \A j \in DOMAIN events :
              IsStory(events[j])
              => LET k == StageIndex(Mode, "create-subtasks")
                 IN /\ k # 0
                    /\ \E i \in 1..(j - 1) : IsStep(events[i], k, "in_progress")
                    /\ \A i \in 1..(j - 1) : ~IsStep(events[i], k, "complete")

\* a request in both mode that went through its seven stages
C8_Witness ==
    /\ Generating
    /\ Mode = "both"
    /\ EndedInSuccess
    /\ Len(StepEvents) = 14
    /\ Len(StoryEvents) = 3

\* a field the claim requires of the mode is absent from the body
C9_FieldAbsent ==
    \/ \E f \in {"figmaUrl", "figmaToken", "atlassianEmail", "atlassianToken",
                 "componentName"} : ~Present(body, f)
    \/ Mode \in {"both", "jira_only"} /\ ~Present(body, "jiraProject")
    \/ Mode \in {"both", "fsd_only"} /\ ~Present(body, "confluenceSpace")

\* C9: a request whose body lacks a field required for its mode, or that
\* arrives while the language-model credential is unset, gets a stream of
\* exactly one event, an error event, and no external call is made.
C9_PreflightRejection ==
    (Generating /\ body.json /\ pc # "entered" /\ (C9_FieldAbsent \/ ~apiKeySet))
    => /\ Len(events) = 1
       /\ events[1].type = "error"
       /\ closed
       /\ calls = <<>>

\* a document-only request without a wiki space was rejected
C9_Witness ==
    /\ Generating
    /\ body.json
    /\ apiKeySet
    /\ Mode = "fsd_only"
    /\ body.figmaUrl = "ok"
    /\ (AllFields \ {"figmaUrl"}) \ body.present = {"confluenceSpace"}
    /\ closed

\* C10: when createComponentWithSubtasks returns after a failed parent
\* creation, no sub-task field is populated, completedTasks is empty,
\* failedTasks holds exactly one entry, the parent's, the parent key is
\* empty, and no sub-task creation was attempted.
C10_ParentFailureResult ==
    (entry = "createComponentWithSubtasks" /\ pc = "done"
        /\ \E i \in DOMAIN calls : IsParentCall(calls[i]) /\ ~calls[i].ok)
    => /\ DOMAIN result.subtasks = {}
       /\ result.completedTasks = <<>>
       /\ Len(result.failedTasks) = 1
       /\ result.failedTasks[1].type = "Parent"
       /\ result.parent.key = NoKey
       /\ result.parent.url = NoUrl

\* the library returned after the tracker refused the parent
C10_Witness ==
    /\ entry = "createComponentWithSubtasks"
    /\ pc = "done"
    /\ calls # <<>> /\ IsParentCall(Last(calls)) /\ ~Last(calls).ok
    /\ Len(result.failedTasks) = 1

\* the library has returned after a successful parent creation and exactly
\* one failed sub-task creation
OneSubTaskFailed ==
    /\ entry = "createComponentWithSubtasks"
    /\ pc = "done"
    /\ \E i \in DOMAIN calls : IsParentCall(calls[i]) /\ calls[i].ok
    /\ Len(FailedSubCalls) = 1
\* the fields of result.subtasks of the sub-task calls that succeeded
SucceededFields ==
    {SubTaskField[n] : n \in {m \in 1..Len(SubTasks) :
        \E i \in DOMAIN calls :
            IsSubTaskCall(calls[i]) /\ calls[i].ok /\ calls[i].target = SubTasks[m]}}

\* C11 as claimed: after a successful parent and exactly one failed sub-task
\* the result has 2 entries in completedTasks and 1 in failedTasks, and the
\* succeeding sub-tasks' fields are populated.
C11_TwoCompletedEntries ==
    OneSubTaskFailed
    => /\ Len(result.completedTasks) = 2
       /\ Len(result.failedTasks) = 1
       /\ DOMAIN result.subtasks = SucceededFields

\* C11, amended: after a successful parent and exactly one failed sub-task
\* the result has 3 entries in completedTasks (the parent's first, then the
\* two succeeding sub-tasks'), 1 entry in failedTasks (the failing
\* sub-task's), the two succeeding sub-task fields are populated with the
\* returned keys and the failing one is absent.
C11_OneSubTaskFails ==
    OneSubTaskFailed
    => /\ Len(result.completedTasks) = 3
       /\ result.completedTasks[1] = [type |-> "Parent", key |-> result.parent.key]
       /\ <<result.completedTasks[2].type, result.completedTasks[3].type>>
            = TargetsOf(OkSubCalls)
       /\ Len(result.failedTasks) = 1
       /\ result.failedTasks[1].type = FailedSubCalls[1].target
       /\ Cardinality(DOMAIN result.subtasks) = 2
       /\ DOMAIN result.subtasks = SucceededFields
       /\ \A i \in 1..Len(OkSubCalls) :
             \E n \in 1..Len(SubTasks) :
                /\ SubTasks[n] = OkSubCalls[i].target
                /\ result.subtasks[SubTaskField[n]] = OkSubCalls[i].key

\* the library returned with FED and QA created and BED refused
C11_Witness ==
    /\ OneSubTaskFailed
    /\ DOMAIN result.subtasks = {"fed", "qa"}
    /\ Len(result.completedTasks) = 3

\* the final message of a request that ended in success
Final == Last(events).data
IsCreated(e) == e.type = "story_created"
CreatedEvents == SelectSeq(events, IsCreated)
ParentCreated == \E i \in DOMAIN calls : IsParentCall(calls[i]) /\ calls[i].ok
PageCreated == \E i \in DOMAIN calls : IsPageCall(calls[i]) /\ calls[i].ok
\* the position of a sub-task's name in FED, BED, QA
SubTaskNumber(name) == CHOOSE n \in 1..Len(SubTasks) : SubTasks[n] = name

\* C12: the final success message carries the parent key and url iff a
\* parent was created in this request (the key the tracker returned, and its
\* url); its sub-task key list holds the keys of the successful sub-task
\* creations in FED, BED, QA order, the url list the url of each key at the
\* same position, both equal to what the story_created events announced (the
\* lists are left out of the message when no sub-task was created); the
\* document url iff a page was created; and the count is the number of keys.
C12_SuccessAggregates ==
    (Generating /\ EndedInSuccess)
    => LET keys == KeysOf(OkSubCalls)
           urls == [i \in 1..Len(keys) |-> getIssueUrl(keys[i])]
       IN /\ Final.jiraEpicKey # Undefined <=> ParentCreated
          /\ Final.jiraEpicUrl # Undefined <=> ParentCreated
          /\ ParentCreated
               => \E i \in DOMAIN calls :
                     /\ IsParentCall(calls[i]) /\ calls[i].ok
                     /\ Final.jiraEpicKey = Defined(calls[i].key)
                     /\ Final.jiraEpicUrl = Defined(getIssueUrl(calls[i].key))
          /\ Final.jiraStoryKeys = (IF keys = <<>> THEN Undefined ELSE Defined(keys))
          /\ Final.jiraStoryUrls = (IF keys = <<>> THEN Undefined ELSE Defined(urls))
          /\ \A i \in 1..Len(OkSubCalls) : \A j \in 1..Len(OkSubCalls) :
                i < j => SubTaskNumber(OkSubCalls[i].target)
                           < SubTaskNumber(OkSubCalls[j].target)
          /\ keys = [i \in 1..Len(CreatedEvents) |-> CreatedEvents[i].data.storyKey]
          /\ urls = [i \in 1..Len(CreatedEvents) |-> CreatedEvents[i].data.storyUrl]
          /\ Final.confluenceUrl # Undefined <=> PageCreated
          /\ PageCreated => Final.confluenceUrl = Defined(PageUrl)
          /\ Final.storiesGenerated = Len(keys)

\* a request in both mode created the parent, FED and QA but not BED, and
\* the page, and reported them
C12_Witness ==
    /\ Generating
    /\ EndedInSuccess
    /\ ParentCreated
    /\ PageCreated
    /\ TargetsOf(OkSubCalls) = <<"FED", "QA">>
    /\ Final.jiraStoryKeys # Undefined
    /\ Len(Final.jiraStoryKeys[1]) = 2

IsAnalysisCall(c) == c.service = "llm" /\ c.target = "analysis"
IsCreationCall(c) == c.service \in {"jira", "confluence"}

\* C13: when the language model's reply to the analysis prompt is not
\* parseable JSON, generateContentWithAI throws and returns no bundle; the
\* request ends with the terminal error event while ai-analysis is the stage
\* in progress, the completion call was made once, it is the last external
\* call, and no ticket or document creation call is made.
C13_UnparseableReplyAborts ==
    (Generating /\ reply = NotJson)
    => /\ generateContentWithAI(reply).threw
       /\ aiContent = NoBundle
       /\ EndedInError
       /\ Last(events).message = "Failed to parse AI response"
       /\ Len(events) >= 2
       /\ IsStep(events[Len(events) - 1], StageIndex(Mode, "ai-analysis"), "in_progress")
       /\ events[Len(events) - 1].message = StageMessage("ai-analysis")
       /\ Len(SelectSeq(calls, IsAnalysisCall)) = 1
       /\ IsAnalysisCall(Last(calls))
       /\ \A i \in DOMAIN calls : ~IsCreationCall(calls[i])

\* a request in both mode got a reply that is not JSON and was ended
C13_Witness ==
    /\ Generating
    /\ Mode = "both"
    /\ reply = NotJson
    /\ closed
    /\ Len(calls) >= 2

Parsing == entry = "generateContentWithAI" /\ pc # "called"
\* the reply is a JSON object that lacks at least one of the six keys
LacksSomeKey == reply.kind = "object" /\ DOMAIN reply.obj # BundleKeys
HasExpectedShape(obj, key) == key \in DOMAIN obj /\ obj[key].t = ExpectedShape(key)

\* C14 as claimed: parsing an object that lacks some of the six keys returns a
\* bundle with all six fields, the absent ones at their defaults, and every
\* member that is present with the expected shape is passed through unchanged.
C14_ExpectedShapePassedThrough ==
    (Parsing /\ LacksSomeKey)
    => /\ pc = "returned"
       /\ DOMAIN aiContent = BundleKeys
       /\ \A key \in BundleKeys \ DOMAIN reply.obj : aiContent[key] = DefaultValue(key)
       /\ \A key \in BundleKeys :
             HasExpectedShape(reply.obj, key) => aiContent[key] = reply.obj[key]

\* C14, amended: parsing the empty object, or any object that lacks some of
\* the six keys, never throws and returns a bundle with all six fields: an
\* absent sequence is the empty sequence, an absent description the default
\* description, every sequence that is present and every non-empty
\* description string that is present is passed through unchanged, and an
\* empty description string is replaced by the default description.
C14_AbsentKeysDefaulted ==
    (Parsing /\ LacksSomeKey)
    => /\ pc = "returned"
       /\ DOMAIN aiContent = BundleKeys
       /\ \A key \in BundleKeys \ DOMAIN reply.obj : aiContent[key] = DefaultValue(key)
       /\ \A key \in SequenceKeys :
             HasExpectedShape(reply.obj, key) => aiContent[key] = reply.obj[key]
       /\ HasExpectedShape(reply.obj, "description")
            => aiContent["description"] =
                 (IF reply.obj["description"] = JsonString("")
                  THEN DefaultValue("description") ELSE reply.obj["description"])

\* the reply {"description": "X"} was parsed: description "X", no stories,
\* no field requirements
C14_Witness ==
    /\ Parsing
    /\ reply = ObjectReply([key \in {"description"} |-> JsonString("X")])
    /\ pc = "returned"
    /\ aiContent["description"] = JsonString("X")
    /\ aiContent["stories"] = JsonArray(<<>>)
    /\ aiContent["fieldRequirements"] = JsonArray(<<>>)

\* C15: a member that is present with an unexpected shape is replaced by the
\* default of its key, so every sequence field of a returned bundle is a
\* sequence and its description a string.
C15_UnexpectedShapeDefaulted ==
    (Parsing /\ pc = "returned")
    => /\ \A key \in BundleKeys :
             (key \in DOMAIN reply.obj /\ ~HasExpectedShape(reply.obj, key))
             => aiContent[key] = DefaultValue(key)
       /\ \A key \in BundleKeys : aiContent[key].t = ExpectedShape(key)

Traversing == entry = "formatComponentForDeepAI"
IsVisit(c) == c.visited
RejectedForCount(c) == ~c.visited /\ c.count >= MAX_ELEMENTS
RejectedForDepth(c) == ~c.visited /\ c.count < MAX_ELEMENTS

\* C16: whatever the element tree, the traversal has visited at most 100
\* elements (elementCount counts exactly the visited ones) and no visited
\* element is deeper than depth 5.
C16_TraversalBounded ==
    Traversing
    => /\ elementCount <= MAX_ELEMENTS
       /\ elementCount = Len(SelectSeq(walk, IsVisit))
       /\ \A i \in DOMAIN walk : walk[i].visited => walk[i].depth <= MAX_DEPTH

\* a traversal is over that turned deeper elements away and stopped at 100
C16_Witness ==
    /\ Traversing
    /\ pc = "returned"
    /\ elementCount = MAX_ELEMENTS
    /\ \E i \in DOMAIN walk : walk[i].depth > MAX_DEPTH
    /\ RejectedForCount(Last(walk))

\* C17 as claimed: once an element has been rejected, for either bound, no
\* further element is visited.
C17_StopsAfterAnyRejection ==
    (Traversing /\ walk # <<>>)
    => ((\E i \in 1..(Len(walk) - 1) : ~walk[i].visited) => ~Last(walk).visited)

\* C17, amended: once an element has been rejected because 100 elements were
\* counted, no further element is visited, whatever siblings remain; an
\* element rejected for its depth alone is skipped with its subtree, and the
\* elements called afterwards that are not deeper than depth 5 are still
\* visited while fewer than 100 are counted.
C17_StopsAfterCountRejection ==
    (Traversing /\ walk # <<>>)
    => /\ (\E i \in 1..(Len(walk) - 1) : RejectedForCount(walk[i]))
            => ~Last(walk).visited
       /\ (Last(walk).count < MAX_ELEMENTS /\ Last(walk).depth <= MAX_DEPTH)
            => Last(walk).visited

\* a traversal is over in which an element was visited after a rejection for
\* depth, and elements were turned away after the first rejection for count
C17_Witness ==
    /\ Traversing
    /\ pc = "returned"
    /\ \E i \in DOMAIN walk : \E j \in DOMAIN walk :
          i < j /\ RejectedForDepth(walk[i]) /\ walk[j].visited
    /\ \E i \in DOMAIN walk : \E j \in DOMAIN walk :
          i < j /\ RejectedForCount(walk[i]) /\ walk[j].depth <= MAX_DEPTH

\* ---------------------------------------------------------------- C18
ResolvingVariants == entry = "findResponsiveVariants" /\ pc = "returned"
ComponentSetRoot == document.type = "COMPONENT_SET" /\ document.hasChildren
ChildMatches(i, keywords) ==
    MatchesAny(toLowerCase(document.children[i].name), keywords)
SlotKeywords(slot) ==
    CASE slot = "desktop" -> desktopKeywords
      [] slot = "tablet" -> tabletKeywords
      [] slot = "mobile" -> mobileKeywords
\* the child may take the slot
QualifiesFor(i, slot) ==
    \/ ChildMatches(i, SlotKeywords(slot))
    \/ /\ slot = "desktop"
       /\ ~ChildMatches(i, tabletKeywords)
       /\ ~ChildMatches(i, mobileKeywords)
\* the positions of the first child that may take the slot: one or none
FirstQualifying(slot) ==
    LET qualifying == {i \in DOMAIN document.children : QualifiesFor(i, slot)}
    IN {i \in qualifying : \A j \in qualifying : i <= j}
MatchesExactlyOne(i) ==
    Cardinality({slot \in Slots : ChildMatches(i, SlotKeywords(slot))}) = 1

\* C18: on a component-set root the resolver gives each breakpoint the id of
\* the first direct child that qualifies for it (desktop: a desktop keyword, or
\* neither a tablet nor a mobile keyword; tablet and mobile: their keyword),
\* whatever lies below the children; a slot no child qualifies for stays empty,
\* desktop then falling back to the root.  When every child matches exactly one
\* keyword set, each breakpoint holds the id of the first child matching its
\* keyword.
C18_ComponentSetDirectChildren ==
    (ResolvingVariants /\ ComponentSetRoot) =>
        /\ \A slot \in Slots :
              LET first == FirstQualifying(slot)
              IN
              IF first # {}
              THEN /\ slot \in DOMAIN variants
                   /\ \A i \in first :
                         variants[slot] = document.children[i].id
              ELSE IF slot = "desktop" /\ document.id # NoId
                   THEN slot \in DOMAIN variants /\ variants[slot] = document.id
                   ELSE slot \notin DOMAIN variants
        /\ (\A i \in DOMAIN document.children : MatchesExactlyOne(i)) =>
              \A slot \in Slots : \A i \in DOMAIN document.children :
                  (/\ ChildMatches(i, SlotKeywords(slot))
                   /\ \A j \in 1..(i - 1) : ~ChildMatches(j, SlotKeywords(slot)))
                      => (slot \in DOMAIN variants
                            /\ variants[slot] = document.children[i].id)

\* the three variants in the order mobile, tablet, desktop, the last with a
\* child of its own, and each breakpoint resolved to its child
C18_Witness ==
    /\ ResolvingVariants
    /\ ComponentSetRoot
    /\ Len(document.children) = 3
    /\ document.children[1].name = FooterMobile
    /\ document.children[2].name = FooterTablet
    /\ document.children[3].name = FooterDesktop
    /\ document.children[3].hasChildren
    /\ variants = [desktop |-> <<1, 3>>, tablet |-> <<1, 2>>, mobile |-> <<1, 1>>]

\* ---------------------------------------------------------------- C19
NodeIds == {n.id : n \in Nodes(document)}
\* some node of the tree can be assigned to desktop
DesktopCandidate ==
    IF ComponentSetRoot
    THEN \E i \in DOMAIN document.children : QualifiesFor(i, "desktop")
    ELSE \E n \in Nodes(document) :
            /\ Related(toLowerCase(n.name), toLowerCase(componentName))
            /\ MatchesAny(toLowerCase(n.name), desktopKeywords)

\* C19: the resolver returns for every tree; desktop is filled whenever the
\* root has an id, and is the root's id when no node was assigned to it; every
\* filled slot holds the id of a node of the tree.
C19_ResolverTotal ==
    /\ entry = "findResponsiveVariants" => pc \in {"called", "returned"}
    /\ ResolvingVariants =>
          /\ DOMAIN variants \subseteq Slots
          /\ document.id # NoId => Filled(variants, "desktop")
          /\ (~DesktopCandidate /\ document.id # NoId) => variants["desktop"] = document.id
          /\ (~DesktopCandidate /\ document.id = NoId) => "desktop" \notin DOMAIN variants
          /\ \A slot \in DOMAIN variants : variants[slot] \in NodeIds

\* a tree whose only child is a tablet variant: desktop is the root
C19_Witness ==
    /\ ResolvingVariants
    /\ ~DesktopCandidate
    /\ document.id # NoId
    /\ Len(document.children) = 1
    /\ variants = [desktop |-> document.id, tablet |-> <<1, 1>>]

\* ---------------------------------------------------------------- C20
Extracting == entry = "extractComponentData" /\ pc = "returned"
TargetNode == TargetOf(document, componentName)
\* a node without a box, and every such node below it, is projected without
\* a dimensions field
RECURSIVE BoxlessWithoutDimensions(_, _)
BoxlessWithoutDimensions(node, element) ==
    /\ node.box = NoBox => "dimensions" \notin DOMAIN element
    /\ \A i \in DOMAIN node.children :
          BoxlessWithoutDimensions(node.children[i], element.children[i])

\* C20 as stated: every node without a bounding box, the node selected as the
\* component root included, is projected without a dimensions field.
C20_NoDimensionsWithoutBox ==
    Extracting => BoxlessWithoutDimensions(TargetNode, extracted)

\* C20: every node below the node selected as the component root that has no
\* bounding box is projected without a dimensions field; the projection of the
\* selected root always has one, 0 by 0 when the root has no bounding box.
C20_NoDimensionsBelowRoot ==
    Extracting =>
        LET target == TargetNode
        IN /\ Len(extracted.children) = Len(target.children)
           /\ \A i \in DOMAIN target.children :
                 BoxlessWithoutDimensions(target.children[i], extracted.children[i])
           /\ "dimensions" \in DOMAIN extracted
           /\ target.box = NoBox => extracted.dimensions = [width |-> 0, height |-> 0]

\* a selected root without a box, over a boxless child with a boxless child
C20_Witness ==
    /\ Extracting
    /\ TargetNode.box = NoBox
    /\ Len(TargetNode.children) > 0
    /\ TargetNode.children[1].box = NoBox
    /\ TargetNode.children[1].hasChildren
    /\ "dimensions" \notin DOMAIN extracted.children[1]
    /\ "dimensions" \notin DOMAIN extracted.children[1].children[1]
    /\ extracted.dimensions = [width |-> 0, height |-> 0]

\* ---------------------------------------------------------------- C21
MarkupGenerated == entry = "generateFSDContent" /\ pc = "returned"
EscapedCharacters == {"&", "<", ">", "\""}
\* the entity of a character that is escaped, the character itself otherwise
EntityOf(c) ==
    CASE c = "&" -> AmpEntity
      [] c = "<" -> LtEntity
      [] c = ">" -> GtEntity
      [] c = "\"" -> QuotEntity
      [] OTHER -> <<c>>
\* the text with each of its characters escaped, once
EscapedOnce(text) == Flatten([i \in DOMAIN text |-> EntityOf(text[i])])
\* the text a reader of the markup gets back: each entity read as its character
RECURSIVE Unescape(_)
Unescape(str) ==
    IF str = <<>> THEN <<>>
    ELSE LET entities == {c \in EscapedCharacters : startsWith(str, EntityOf(c))}
         IN IF entities = {} THEN <<Head(str)>> \o Unescape(Tail(str))
            ELSE LET c == CHOOSE e \in entities : TRUE
                 IN <<c>> \o Unescape(SubSeq(str, Len(EntityOf(c)) + 1, Len(str)))
ListFields == {"designNotes", "functionalRequirements", "contentAuthorRequirements"}
ColumnFields == {"element", "fieldType", "dataSource", "display", "notes"}
\* the string of the data a piece of the markup was made from
RawOf(d, piece) ==
    IF piece.from = "jiraKey" THEN extractJiraKey(d.jiraEpicUrl)
    ELSE IF piece.from \in ListFields THEN d[piece.from][piece.index]
    ELSE IF piece.from \in ColumnFields THEN d.fieldRequirements[piece.index][piece.from]
    ELSE IF piece.from \in Slots THEN d.imageUrls[piece.from]
    ELSE d[piece.from]
Embeds(field, index) ==
    \E i \in DOMAIN fsdContent :
        fsdContent[i].from = field /\ fsdContent[i].index = index

\* C21: every string of the data is embedded in the markup, and each embedded
\* string is the data's string with each &, <, > and " replaced once by its
\* entity: it holds no raw <, > or ", and reading its entities back gives the
\* data's string.
C21_EscapedExactlyOnce ==
    MarkupGenerated =>
        /\ \A i \in DOMAIN fsdContent :
              fsdContent[i].from # "template" =>
                  LET raw == RawOf(fsdData, fsdContent[i])
                      text == fsdContent[i].text
                  IN /\ text = EscapedOnce(raw)
                     /\ Unescape(text) = raw
                     /\ \A k \in DOMAIN text : text[k] \notin {"<", ">", "\""}
        /\ \A field \in {"componentName", "figmaUrl", "description"} : Embeds(field, 0)
        /\ fsdData.jiraEpicUrl # <<>> => Embeds("jiraEpicUrl", 0)
        /\ \A field \in ListFields : \A k \in DOMAIN fsdData[field] : Embeds(field, k)
        /\ \A field \in ColumnFields :
              \A k \in DOMAIN fsdData.fieldRequirements : Embeds(field, k)
        /\ \A slot \in Slots : fsdData.imageUrls[slot] # <<>> => Embeds(slot, 0)

\* a description of an ampersand and an angle bracket, embedded as two entities
C21_Witness ==
    /\ MarkupGenerated
    /\ fsdData.description = <<"&", "<">>
    /\ \E i \in DOMAIN fsdContent :
          /\ fsdContent[i].from = "description"
          /\ fsdContent[i].text = AmpEntity \o LtEntity

\* ---------------------------------------------------------------- C22
IsLookup(c) == c.service = "jira" /\ c.op = "myself"
IsCreateIssue(c) == c.service = "jira" /\ c.op = "createIssue"
Lookups == {i \in DOMAIN calls : IsLookup(calls[i])}
Creations == {i \in DOMAIN calls : IsCreateIssue(calls[i])}

\* C22 as stated: the identity lookup is called at most once in a request.
C22_LookupAtMostOnce == Cardinality(Lookups) <= 1

\* C22: in a request the identity lookup succeeds at most once and is never
\* called again after it succeeded; every ticket creation after a successful
\* lookup is assigned the memoized account id.
C22_LookupMemoizedOnSuccess ==
    /\ Cardinality({i \in Lookups : calls[i].ok}) <= 1
    /\ \A i \in Lookups :
          calls[i].ok =>
              /\ \A j \in Lookups : j <= i
              /\ body.atlassianEmail \in DOMAIN accountIdCache
              /\ \A j \in Creations :
                    j > i => calls[j].assignee = accountIdCache[body.atlassianEmail]

\* the lookup fails for the parent and succeeds for the first sub-task; the
\* two other sub-tasks are created without a lookup
C22_Witness ==
    /\ entry = "generate"
    /\ Len(calls) >= 2
    /\ Cardinality(Creations) = 4
    /\ Cardinality(Lookups) = 2
    /\ \E i \in Lookups : ~calls[i].ok /\ calls[i + 1].target = "Parent"
    /\ \E i \in Lookups : calls[i].ok /\ calls[i + 1].target = "FED"
    /\ \A j \in Creations : calls[j].target \in {"BED", "QA"} => calls[j].assignee # NoAccount

\* ---------------------------------------------------------------- C23
\* C23: nothing written while one request is served is read while another is
\* served: a ticket of a request is assigned an account id only after an
\* identity lookup of that same request has succeeded.
C23_NoCrossRequestCache ==
    \A j \in Creations :
        calls[j].assignee # NoAccount =>
            \E i \in Lookups : i < j /\ calls[i].ok

\* ---------------------------------------------------------------- C24
\* the calls the claim lists: the design fetch, the two language-model
\* calls, the ticket creations and the page creation
SingleAttemptCall(c) ==
    \/ c.service = "figma" /\ c.op = "getFigmaFile"
    \/ c.service = "llm"
    \/ IsCreateIssue(c)
    \/ c.service = "confluence" /\ c.op = "createPage"
SameCall(c, d) == c.service = d.service /\ c.op = d.op /\ c.target = d.target

CreatesSubTasks == entry \in {"generate", "createComponentWithSubtasks"}
\* the handler stands before its n-th sub-task creation
BeforeSubTask(n) == CreatesSubTasks /\ pc = SubTaskPc[n]
\* the outcome of the n-th sub-task creation is recorded under that sub-task
Attributed(n) ==
    IF entry = "generate"
    THEN /\ n <= Len(StoryEvents)
         /\ StoryEvents[n].message = SubTasks[n]
         /\ StoryEvents[n].type = (IF SubCalls[n].ok THEN "story_created" ELSE "story_error")
         /\ SubCalls[n].ok => StoryEvents[n].data.storyKey = SubCalls[n].key
    ELSE IF SubCalls[n].ok
         THEN /\ SubTaskField[n] \in DOMAIN result.subtasks
              /\ result.subtasks[SubTaskField[n]] = SubCalls[n].key
         ELSE /\ SubTaskField[n] \notin DOMAIN result.subtasks
              /\ \E k \in DOMAIN result.failedTasks :
                    result.failedTasks[k].type = SubTasks[n]

\* C25 as stated: the three creations are issued concurrently, so once one
\* of them has been answered all three have been issued.
C25_IssuedConcurrently ==
    (CreatesSubTasks /\ Len(SubCalls) > 0) => Len(SubCalls) = Len(SubTasks)

\* C25: the three creations are issued one after another, FED, BED, QA: the
\* n-th is issued only when the n-1 before it have been answered and their
\* outcomes recorded, each under its own sub-task.
C25_IssuedOneAfterAnother ==
    CreatesSubTasks =>
        /\ TargetsOf(SubCalls) = SubSeq(SubTasks, 1, Len(SubCalls))
        /\ \A n \in 1..Len(SubCalls) : Attributed(n)
        /\ \A n \in 1..Len(SubTasks) : BeforeSubTask(n) => Len(SubCalls) = n - 1

\* the route before the BED creation: the FED creation has failed and is
\* reported, no other sub-task creation has been issued
C25_Witness ==
    /\ entry = "generate"
    /\ BeforeSubTask(2)
    /\ Len(SubCalls) = 1
    /\ ~SubCalls[1].ok
    /\ Last(events) = StoryError(1)

\* ---------------------------------------------------------------- C26
\* the root is searched as a whole tree
SearchedRoot == ~ComponentSetRoot
\* the nodes of a tree in pre-order: a node, then its children in order
RECURSIVE PreOrder(_)
PreOrder(node) ==
    <<node>> \o Flatten([i \in DOMAIN node.children |-> PreOrder(node.children[i])])
\* the node qualifies, and its name has a keyword of the slot
Qualifies(node) ==
    LET nodeName == toLowerCase(node.name)
        nameLower == toLowerCase(componentName)
    IN includes(nodeName, nameLower) \/ includes(nameLower, FirstWord(nodeName))
TakesSlot(node, slot) ==
    Qualifies(node) /\ MatchesAny(toLowerCase(node.name), SlotKeywords(slot))
\* the positions of the first of the nodes that takes the slot: one or none
FirstTaking(nodes, slot) ==
    LET taking == {k \in DOMAIN nodes : TakesSlot(nodes[k], slot)}
    IN {k \in taking : \A j \in taking : k <= j}

NamedAsComponent(node) ==
    LET wanted == trim(toLowerCase(componentName))
        name == trim(toLowerCase(node.name))
    IN \/ name = wanted
       \/ /\ Len(name) > Len(wanted)
          /\ SubSeq(name, 1, Len(wanted)) = wanted
          /\ name[Len(wanted) + 1] \in {" ", "/"}
Selectable(node) ==
    NamedAsComponent(node) /\ node.type \in Renderable
\* the first selectable node of the tree in pre-order, or the root
Selected ==
    LET nodes == PreOrder(document)
        selectable == {k \in DOMAIN nodes : Selectable(nodes[k])}
    IN IF selectable = {} THEN document
       ELSE nodes[CHOOSE k \in selectable : \A j \in selectable : k <= j]
\* the element is the projection of the node with all that is below it
RECURSIVE ProjectsWhole(_, _)
ProjectsWhole(node, element) ==
    /\ element.name = node.name
    /\ element.type = node.type
    /\ IF node.children = <<>> THEN "children" \notin DOMAIN element
       ELSE /\ "children" \in DOMAIN element
            /\ Len(element.children) = Len(node.children)
            /\ \A i \in DOMAIN node.children :
                  ProjectsWhole(node.children[i], element.children[i])

\* C27: the component is extracted from the first node in pre-order that is
\* named as the component and of a renderable type, from the root when there
\* is none; the projection records that node's id and type and keeps every
\* node below it, in the order of the tree.
C27_FirstSelectableProjected ==
    Extracting =>
        LET selected == Selected
        IN /\ extracted.nodeId = selected.id
           /\ extracted.type = selected.type
           /\ Len(extracted.children) = Len(selected.children)
           /\ \A i \in DOMAIN selected.children :
                 ProjectsWhole(selected.children[i], extracted.children[i])

\* under "Page": a frame "Footers", then a text "Footer" over a component
\* "Footer Desktop", which is the one extracted
C27_Witness ==
    /\ Extracting
    /\ componentName = FooterUpper
    /\ document.name = Page
    /\ Len(document.children) = 2
    /\ document.children[1].name = Footers
    /\ document.children[2].name = Footer
    /\ document.children[2].type = "TEXT"
    /\ document.children[2].hasChildren
    /\ extracted.nodeId = <<2, 2>>

\* ---------------------------------------------------------------- C28
LibraryReturned == entry = "createComponentWithSubtasks" /\ pc = "done"
ScriptEnded == entry = "script" /\ pc = "done"
TaskOrder == <<"Parent">> \o SubTasks
\* the position of a task in the order Parent, FED, BED, QA
TaskPosition(type) == CHOOSE k \in DOMAIN TaskOrder : TaskOrder[k] = type
\* the entries of the list are in that order, each task at most once
InTaskOrder(list) ==
    \A i \in DOMAIN list : \A j \in DOMAIN list :
        i < j => TaskPosition(list[i].type) < TaskPosition(list[j].type)
Lists(type, list) == \E i \in DOMAIN list : list[i].type = type
\* the two lists of a run that is over hold one entry for the parent and,
\* when the parent was created, one for each sub-task, in the order of the tasks
ListsConsistent(completed, failed) ==
    /\ InTaskOrder(completed)
    /\ InTaskOrder(failed)
    /\ IF Lists("Parent", completed)
       THEN /\ Len(completed) + Len(failed) = 1 + Len(SubTasks)
            /\ \A n \in DOMAIN SubTasks :
                  Lists(SubTasks[n], completed) <=> ~Lists(SubTasks[n], failed)
       ELSE /\ completed = <<>>
            /\ Len(failed) = 1
            /\ Lists("Parent", failed)

\* C28: when createComponentWithSubtasks returns, its two lists hold 4
\* entries if the parent was created (1 if not), in the order Parent, FED,
\* BED, QA within each list, and a sub-task's field is set exactly when its
\* entry is in completedTasks, and absent exactly when it is in failedTasks;
\* the lists of the script are built alike.
C28_ResultConsistent ==
    /\ LibraryReturned =>
          /\ ListsConsistent(result.completedTasks, result.failedTasks)
          /\ Lists("Parent", result.completedTasks) <=> result.parent.key # NoKey
          /\ \A n \in DOMAIN SubTasks :
                /\ SubTaskField[n] \in DOMAIN result.subtasks
                      <=> Lists(SubTasks[n], result.completedTasks)
                /\ (Lists("Parent", result.completedTasks)
                      /\ SubTaskField[n] \notin DOMAIN result.subtasks)
                      <=> Lists(SubTasks[n], result.failedTasks)
    /\ ScriptEnded => ListsConsistent(script.completedTasks, script.failedTasks)

\* the parent and the BED sub-task created, the FED and QA sub-tasks failed
C28_Witness ==
    /\ LibraryReturned
    /\ TypesOf(result.completedTasks) = <<"Parent", "BED">>
    /\ TypesOf(result.failedTasks) = <<"FED", "QA">>
    /\ DOMAIN result.subtasks = {"bed"}

\* ---------------------------------------------------------------- C29
\* the document stage of a tickets-and-document request was entered and
\* did not complete
DocumentStarted ==
    /\ Generating
    /\ Mode = "both"
    /\ currentStep = StageIndex(Mode, "create-document")
DocumentFailed == DocumentStarted /\ pc # "create-document" /\ ~StageComplete("create-document")
\* the calls the code makes: none of them removes or changes what was created
ForwardOps == {"getFigmaFile", "getFigmaImages", "chat", "myself", "createIssue", "createPage"}
\* the event before the last one tells the key and url of the created parent
ParentAnnouncedBefore(last) ==
    \E i \in DOMAIN calls :
        /\ IsParentCall(calls[i]) /\ calls[i].ok
        /\ \E j \in 1..(last - 1) :
              /\ IsStep(events[j], StageIndex(Mode, "create-parent-ticket"), "complete")
              /\ events[j].data = [epicKey |-> calls[i].key,
                                   epicUrl |-> getIssueUrl(calls[i].key)]
\* each created sub-task has its story_created event before the last one,
\* and the complete event of the stage lists them all
SubTasksAnnouncedBefore(last) ==
    LET keys == KeysOf(OkSubCalls)
        urls == [i \in 1..Len(keys) |-> getIssueUrl(keys[i])]
    IN /\ \A k \in 1..Len(OkSubCalls) :
             \E j \in 1..(last - 1) :
                 /\ events[j].type = "story_created"
                 /\ events[j].message = OkSubCalls[k].target
                 /\ events[j].data.storyKey = keys[k]
                 /\ events[j].data.storyUrl = urls[k]
       /\ \E j \in 1..(last - 1) :
             /\ IsStep(events[j], StageIndex(Mode, "create-subtasks"), "complete")
             /\ events[j].data = [storyKeys |-> keys, storyUrls |-> urls]

\* C29: in tickets-and-document mode, when the document stage fails, the
\* request is over with an error event as its only terminal event and no
\* complete event; the failed page creation, if it was issued, is the last
\* call, and no call of the request is anything but a fetch, a lookup or a
\* creation, so the tickets remain; the parent's key and url and every created
\* sub-task's key and url are in step-complete and story_created events that
\* precede the error event.
C29_DocumentFailureAfterTickets ==
    DocumentFailed =>
        /\ pc = "done" /\ EndedInError
        /\ TerminalIndexes = {Len(events)}
        /\ \A j \in DOMAIN events : events[j].type # "complete"
        /\ IsStep(events[Len(events) - 1], currentStep, "in_progress")
        /\ confluenceUrl = NoUrl
        /\ \A i \in DOMAIN calls :
              /\ calls[i].op \in ForwardOps
              /\ calls[i].op = "createPage" => (i = Len(calls) /\ ~calls[i].ok)
        /\ AllThreeIssued
        /\ ParentAnnouncedBefore(Len(events))
        /\ SubTasksAnnouncedBefore(Len(events))

\* the parent, FED and QA were created, BED was not, and the page creation failed
C29_Witness ==
    /\ DocumentFailed
    /\ TargetsOf(OkSubCalls) = <<SubTasks[1], SubTasks[3]>>
    /\ Last(calls).op = "createPage" /\ ~Last(calls).ok
    /\ Last(events).type = "error"

\* ---------------------------------------------------------------- C30
FailedLookup(c) == IsLookup(c) /\ ~c.ok
\* the lookups made so far for an e-mail address all failed
OnlyFailedLookups(email) ==
    /\ \E i \in DOMAIN calls : FailedLookup(calls[i]) /\ calls[i].target = email
    /\ \A i \in DOMAIN calls :
          (IsLookup(calls[i]) /\ calls[i].target = email) => ~calls[i].ok

\* C30: a failed identity lookup is followed at once by the creation call it
\* was made for, issued without an assignee; the failure is not stored, so
\* the next ticket creation is again preceded by a lookup; an address whose
\* lookups have all failed is not in the cache, and the cache holds account
\* ids only.
C30_FailedLookupNotFatal ==
    /\ \A i \in DOMAIN calls :
          FailedLookup(calls[i]) =>
              /\ i + 1 \in DOMAIN calls
              /\ IsCreateIssue(calls[i + 1])
              /\ calls[i + 1].assignee = NoAccount
              /\ (i + 2 \in DOMAIN calls /\ calls[i + 2].service = "jira")
                    => IsLookup(calls[i + 2])
    /\ \A e \in Emails : OnlyFailedLookups(e) => e \notin DOMAIN accountIdCache
    /\ \A e \in DOMAIN accountIdCache : accountIdCache[e] \in AccountIds

\* the lookup failed, the ticket was created all the same, and the lookup of
\* the next creation succeeded and was stored
C30_Witness ==
    /\ Len(calls) >= 4
    /\ \E i \in DOMAIN calls :
          /\ i + 3 \in DOMAIN calls
          /\ FailedLookup(calls[i])
          /\ IsCreateIssue(calls[i + 1]) /\ calls[i + 1].ok
          /\ IsLookup(calls[i + 2]) /\ calls[i + 2].ok
          /\ calls[i + 2].target = calls[i].target
          /\ IsCreateIssue(calls[i + 3]) /\ calls[i + 3].assignee # NoAccount
          /\ calls[i].target \in DOMAIN accountIdCache


====
